---------------------------- MODULE Spec2Model ----------------------------
(***************************************************************************)
(* Directory Hierarchy Indexer (directory_indexer.py).                      *)
(*                                                                         *)
(* HybridPipeline scans a directory tree and numbers every visible entry   *)
(* ("1", "1.1", "1.2.3"); DirectoryIndexer keeps the resulting hierarchy   *)
(* and writes it as TXT, JSON or XML inside the indexed folder.            *)
(*                                                                         *)
(* Python strings are modelled as sequences of one-character strings, so   *)
(* that concatenation, lower(), startswith() and the code-point order used *)
(* by sorted() are computed and not assumed.                               *)
(***************************************************************************)
EXTENDS Integers, Sequences, FiniteSets, TLC

(***************************************************************************)
(* Bounds of the model.                                                    *)
(***************************************************************************)
\* Largest number of entries (files and directories, at any depth) of an
\* indexed directory tree in the initial states.
MaxNodes == 3
\* Largest number of scans in one behaviour.
MaxScans == 2
\* Library callers call generate_output and generate_all while fewer than
\* this many files have been written.
MaxWrites == 1
\* The number of symbolic links the operating system follows while it
\* resolves one path; asked to follow one more it refuses with ELOOP
\* (Linux follows 40).
MaxFollowed == 2

(***************************************************************************)
(* Strings.                                                                *)
(***************************************************************************)
Upper ==
    << "A", "B", "C", "D", "E", "F", "G", "H", "I", "J", "K", "L", "M",
       "N", "O", "P", "Q", "R", "S", "T", "U", "V", "W", "X", "Y", "Z" >>

Lowercase ==
    << "a", "b", "c", "d", "e", "f", "g", "h", "i", "j", "k", "l", "m",
       "n", "o", "p", "q", "r", "s", "t", "u", "v", "w", "x", "y", "z" >>

Digits == << "0", "1", "2", "3", "4", "5", "6", "7", "8", "9" >>

\* The characters the model uses, in increasing code-point order.
CodePoints ==
    << "\n", " ", "\"", "&", ",", ".", "/" >> \o Digits \o << ":", "<", "=", ">" >>
        \o Upper \o << "[", "\\", "]", "_" >> \o Lowercase \o << "{", "}" >>

\* ord(c), up to an order-preserving renumbering.
Ord(c) == CHOOSE i \in 1..Len(CodePoints) : CodePoints[i] = c

\* str.lower() on one character.
LowerChar(c) ==
    IF \E i \in 1..Len(Upper) : Upper[i] = c
    THEN Lowercase[CHOOSE i \in 1..Len(Upper) : Upper[i] = c]
    ELSE c

\* s.lower()
Lower(s) == [i \in 1..Len(s) |-> LowerChar(s[i])]

\* s < t for Python strings: lexicographic by code point, a proper prefix
\* sorts first.
RECURSIVE StrLess(_, _)
StrLess(s, t) ==
    IF t = << >> THEN FALSE
    ELSE IF s = << >> THEN TRUE
    ELSE IF s[1] # t[1] THEN Ord(s[1]) < Ord(t[1])
    ELSE StrLess(Tail(s), Tail(t))

\* str(n) for n >= 0: the decimal digits of n.
RECURSIVE Str(_)
Str(n) ==
    IF n < 10 THEN << Digits[n + 1] >>
    ELSE Str(n \div 10) \o << Digits[(n % 10) + 1] >>

\* s.startswith(p)
StartsWith(s, p) == Len(s) >= Len(p) /\ SubSeq(s, 1, Len(p)) = p

\* p in s (substring test)
Contains(s, p) ==
    \E i \in 1..(Len(s) - Len(p) + 1) : SubSeq(s, i, i + Len(p) - 1) = p

\* A string literal of the source as a sequence of characters.
S_dot == << "." >>
S_slash == << "/" >>

(***************************************************************************)
(* The file system under the indexed root.                                 *)
(*                                                                         *)
(* An entry is what os.scandir yields: a name, whether is_dir() holds, and *)
(* for a directory what listing it in turn gives: its entries in the       *)
(* order the operating system enumerates them, or an OSError               *)
(* (readable = FALSE).                                                     *)
(***************************************************************************)
FileEntry(n) == [name |-> n, is_dir |-> FALSE, readable |-> TRUE, entries |-> << >>]
DirEntry(n, es) == [name |-> n, is_dir |-> TRUE, readable |-> TRUE, entries |-> es]
LockedDirEntry(n) == [name |-> n, is_dir |-> TRUE, readable |-> FALSE, entries |-> << >>]

\* A symbolic link to a directory: is_dir() follows the link (line 66), and
\* listing it lists what target, the names from the root down, leads to.
LinkEntry(n, target) ==
    [name |-> n, is_dir |-> TRUE, readable |-> TRUE, entries |-> << >>,
     target |-> target]

IsLink(e) == "target" \in DOMAIN e

\* Entry names of the initial states: two names that differ only in case,
\* one whose raw order and lowercase order against them differ, and a
\* hidden one.
Names == { << "a" >>, << "A" >>, << "B", ".", "t" >>, << ".", "h" >> }

NamesOf(es) == {es[i].name : i \in 1..Len(es)}

\* The listings with exactly n entries in all, nested ones included, named
\* from names, with unreadable directories among them or not, given in
\* smaller the listings of every smaller size; names are distinct within
\* one directory, as a file system keeps them.
ListingsFrom(names, locked, smaller, n) ==
    UNION { LET firsts ==
                    IF k = 1
                    THEN {FileEntry(nm) : nm \in names}
                             \cup (IF locked THEN {LockedDirEntry(nm) : nm \in names}
                                   ELSE {})
                             \cup {DirEntry(nm, << >>) : nm \in names}
                    ELSE {DirEntry(nm, sub) : nm \in names, sub \in smaller[k - 1]}
                rests == smaller[n - k]
            IN  {x \in {<< e >> \o r : e \in firsts, r \in rests} :
                     x[1].name \notin NamesOf(Tail(x))}
          : k \in 1..n }

\* The listings of each size from 0 to n, by size.
RECURSIVE ListingsBySize(_, _, _)
ListingsBySize(names, locked, n) ==
    IF n = 0 THEN (0 :> { << >> })
    ELSE LET smaller == ListingsBySize(names, locked, n - 1)
         IN  (n :> ListingsFrom(names, locked, smaller, n)) @@ smaller

ListingsOver(names, locked, n) == ListingsBySize(names, locked, n)[n]

ListingsOfSize(n) == ListingsOver(Names, TRUE, n)

\* Every listing of at most n entries.
ListingsUpTo(names, locked, n) ==
    LET by_size == ListingsBySize(names, locked, n)
    IN  UNION {by_size[k] : k \in 0..n}

Listings == ListingsUpTo(Names, TRUE, MaxNodes)

\* Names that hold characters the output formats treat specially: a quote,
\* a backslash before a letter, and markup characters and a line break.
SpecialNames == { << "\"", "q" >>, << "\\", "n" >>, << "<", "&", "\n", "b" >> }

\* Readable directories whose entries have such names.
SpecialRootStates ==
    {[kind |-> "dir", readable |-> TRUE, entries |-> es] :
         es \in ListingsUpTo(SpecialNames, FALSE, MaxNodes)}

\* What the root path names: a directory (listable or not), a regular file,
\* or nothing.
RootStates ==
    {[kind |-> "dir", readable |-> TRUE, entries |-> es] : es \in Listings}
        \cup {[kind |-> "dir", readable |-> FALSE, entries |-> << >>],
              [kind |-> "file", readable |-> TRUE, entries |-> << >>],
              [kind |-> "missing", readable |-> TRUE, entries |-> << >>]}

\* os.scandir(root / path) on file system state r: ok and the entries in
\* enumeration order, or not ok: an OSError (FileNotFoundError,
\* NotADirectoryError and PermissionError are all OSError).
OSError == [ok |-> FALSE, entries |-> << >>]

\* What the operating system finds at a path below node, having followed
\* that many symbolic links on the way: a link met on the path is replaced
\* by its target, resolved from the root, and the platform refuses (ELOOP,
\* an OSError) to follow more than MaxFollowed links for one path. A path
\* through a file or an unknown name leads to nothing; a directory that
\* cannot be read (mode 000) cannot be searched either, and a path through
\* it is refused (EACCES, a PermissionError).
NoNode == [kind |-> "missing", readable |-> TRUE, entries |-> << >>]
TooManyLinks == [kind |-> "eloop", readable |-> TRUE, entries |-> << >>]
Denied == [kind |-> "denied", readable |-> TRUE, entries |-> << >>]

RECURSIVE ResolvePath(_, _, _, _)
ResolvePath(root, node, path, followed) ==
    IF path = << >>
    THEN node
    ELSE IF node.kind # "dir"
         THEN NoNode
         ELSE IF ~node.readable
         THEN Denied
         ELSE LET hits == {i \in 1..Len(node.entries) : node.entries[i].name = path[1]}
              IN  IF hits = {}
                  THEN NoNode
                  ELSE LET e == node.entries[CHOOSE i \in hits : TRUE]
                       IN  IF IsLink(e)
                           THEN IF followed >= MaxFollowed
                                THEN TooManyLinks
                                ELSE ResolvePath(root, root, e.target \o Tail(path),
                                                 followed + 1)
                           ELSE ResolvePath(root,
                                            [kind |-> IF e.is_dir THEN "dir" ELSE "file",
                                             readable |-> e.readable,
                                             entries |-> e.entries],
                                            Tail(path), followed)

\* ScanDir that lists a directory whatever its mode.
RECURSIVE ScanDirIgnoresMode(_, _)
ScanDirIgnoresMode(r, path) ==
    IF r.kind # "dir"
    THEN OSError
    ELSE IF path = << >>
         THEN [ok |-> TRUE, entries |-> r.entries]
         ELSE LET hits == {i \in 1..Len(r.entries) : r.entries[i].name = path[1]}
              IN  IF hits = {}
                  THEN OSError
                  ELSE LET e == r.entries[CHOOSE i \in hits : TRUE]
                       IN  ScanDirIgnoresMode([kind |-> IF e.is_dir THEN "dir" ELSE "file",
                                               readable |-> e.readable,
                                               entries |-> e.entries],
                                              Tail(path))

ScanDir(r, path) ==
    LET node == ResolvePath(r, r, path, 0)
    IN  IF node.kind # "dir" \/ ~node.readable
        THEN OSError
        ELSE [ok |-> TRUE, entries |-> node.entries]

(***************************************************************************)
(* HybridPipeline                                                          *)
(***************************************************************************)
\* self.yield_interval = 100
DefaultYieldInterval == 100

S_directory == << "d", "i", "r", "e", "c", "t", "o", "r", "y" >>
S_file == << "f", "i", "l", "e" >>

\* not e.name.startswith('.')
Visible(e) == ~StartsWith(e.name, S_dot)

\* KeyLess with the names compared as they are, not lowercased.
KeyLessCaseSensitive(a, b) ==
    IF a.is_dir # b.is_dir
    THEN a.is_dir
    ELSE StrLess(a.name, b.name)

\* key=lambda e: (not e.is_dir(), e.name.lower()), compared as Python
\* compares tuples: False < True, then the strings.
KeyLess(a, b) ==
    IF a.is_dir # b.is_dir
    THEN a.is_dir
    ELSE StrLess(Lower(a.name), Lower(b.name))

\* InsertSorted with an element placed before the elements of equal key.
RECURSIVE InsertSortedUnstable(_, _)
InsertSortedUnstable(s, x) ==
    IF s = << >> THEN << x >>
    ELSE IF ~KeyLess(s[1], x) THEN << x >> \o s
    ELSE << s[1] >> \o InsertSortedUnstable(Tail(s), x)

\* sorted() is stable: an element goes after every element already placed
\* whose key is not greater.
RECURSIVE InsertSorted(_, _)
InsertSorted(s, x) ==
    IF s = << >> THEN << x >>
    ELSE IF KeyLess(x, s[1]) THEN << x >> \o s
    ELSE << s[1] >> \o InsertSorted(Tail(s), x)

RECURSIVE Sorted(_)
Sorted(s) ==
    IF s = << >> THEN << >>
    ELSE InsertSorted(Sorted(SubSeq(s, 1, Len(s) - 1)), s[Len(s)])

\* SortedEntries without the filter on the name.
SortedEntriesUnfiltered(entries) ==
    Sorted([i \in 1..Len(entries) |->
                [name |-> entries[i].name, is_dir |-> entries[i].is_dir]])

\* sorted([e for e in entries if not e.name.startswith('.')], key=...)
SortedEntries(entries) ==
    Sorted(SelectSeq([i \in 1..Len(entries) |->
                          [name |-> entries[i].name, is_dir |-> entries[i].is_dir]],
                     Visible))

\* Number without the dot between the parent's number and idx.
NumberNoDot(parent_number, idx) == parent_number \o Str(idx)

\* Number with idx counted from 0 (enumerate without start=1).
NumberFromZero(parent_number, idx) ==
    IF parent_number # << >>
    THEN parent_number \o S_dot \o Str(idx - 1)
    ELSE Str(idx - 1)

\* number = f"{parent_number}.{idx}" if parent_number else str(idx)
Number(parent_number, idx) ==
    IF parent_number # << >> THEN parent_number \o S_dot \o Str(idx) ELSE Str(idx)

\* ItemRelPath without the test for the root level.
ItemRelPathAlwaysJoined(rel_path, name) == rel_path \o S_slash \o name

\* item_rel_path = f"{rel_path}/{entry.name}" if rel_path else entry.name
ItemRelPath(rel_path, name) ==
    IF rel_path # << >> THEN rel_path \o S_slash \o name ELSE name

\* item = {"number": ..., "name": ..., "type": ..., "path": ..., "children": []}
Item(number, entry, item_rel_path) ==
    [number |-> number,
     name |-> entry.name,
     type |-> IF entry.is_dir THEN S_directory ELSE S_file,
     path |-> item_rel_path,
     children |-> << >>]

\* The value of the local variable item before the loop has assigned it.
NoItem ==
    [number |-> << >>, name |-> << >>, type |-> << >>, path |-> << >>,
     children |-> << >>]

\* Frame of a nested call that is not passed the number of its directory.
FrameWithoutNumber(dir_path, rel_path, parent_number, sorted_entries) ==
    [dir_path |-> dir_path, rel_path |-> rel_path, parent_number |-> << >>,
     sorted_entries |-> sorted_entries, idx |-> 1, item |-> NoItem, items |-> << >>]

\* One activation of _scan_recursive whose listing succeeded: its arguments
\* and its locals. While a nested activation runs, item is the directory
\* item whose children that activation computes.
Frame(dir_path, rel_path, parent_number, sorted_entries) ==
    [dir_path |-> dir_path, rel_path |-> rel_path, parent_number |-> parent_number,
     sorted_entries |-> sorted_entries, idx |-> 1, item |-> NoItem, items |-> << >>]

\* The listing step of _scan_recursive (lines 60-69): the sorted visible
\* entries, or none when os.scandir raises, or when is_dir() of the sort key
\* raises because the platform refuses to follow a visible link or to
\* search a directory on the way to its target.
ListSorted(r, dir_path) ==
    LET listing == ScanDir(r, dir_path)
        visible == SelectSeq(listing.entries, Visible)
        raises(e) == IsLink(e)
                         /\ ResolvePath(r, r, Append(dir_path, e.name), 0)
                                \in {TooManyLinks, Denied}
    IN  IF listing.ok /\ \A k \in 1..Len(visible) : ~raises(visible[k])
        THEN SortedEntries(listing.entries)
        ELSE << >>

\* Return from every activation whose loop is over (lines 88-92): the
\* returned items become the children of the caller's item, the caller
\* appends that item and advances. done: the outermost activation returned.
\* Unwind that puts a finished directory before the items its caller has
\* built so far.
RECURSIVE UnwindPrepends(_)
UnwindPrepends(st) ==
    LET top == st[Len(st)]
    IN  IF top.idx <= Len(top.sorted_entries)
        THEN [done |-> FALSE, stack |-> st, items |-> << >>]
        ELSE IF Len(st) = 1
             THEN [done |-> TRUE, stack |-> << >>, items |-> top.items]
             ELSE LET caller == st[Len(st) - 1]
                      item == [caller.item EXCEPT !.children = top.items]
                  IN  UnwindPrepends(SubSeq(st, 1, Len(st) - 2)
                                         \o << [caller EXCEPT !.items = << item >> \o @,
                                                              !.idx = @ + 1] >>)

RECURSIVE Unwind(_)
Unwind(st) ==
    LET top == st[Len(st)]
    IN  IF top.idx <= Len(top.sorted_entries)
        THEN [done |-> FALSE, stack |-> st, items |-> << >>]
        ELSE IF Len(st) = 1
             THEN [done |-> TRUE, stack |-> << >>, items |-> top.items]
             ELSE LET caller == st[Len(st) - 1]
                      item == [caller.item EXCEPT !.children = top.items]
                  IN  Unwind(SubSeq(st, 1, Len(st) - 2)
                                 \o << [caller EXCEPT !.items = Append(@, item),
                                                      !.idx = @ + 1] >>)

(***************************************************************************)
(* Output generators.  Each returns the text it builds, as one string.     *)
(***************************************************************************)
S_newline == << "\n" >>
S_indent == << " ", " " >>

\* sep.join(lines)
RECURSIVE Join(_, _)
Join(lines, sep) ==
    IF lines = << >> THEN << >>
    ELSE IF Len(lines) = 1 THEN lines[1]
    ELSE lines[1] \o sep \o Join(Tail(lines), sep)

\* s * n
RECURSIVE Repeat(_, _)
Repeat(s, n) == IF n <= 0 THEN << >> ELSE s \o Repeat(s, n - 1)

\* text.split(c) for a one-character separator c
RECURSIVE Split(_, _)
Split(text, c) ==
    IF \A k \in 1..Len(text) : text[k] # c
    THEN << text >>
    ELSE LET k == CHOOSE j \in 1..Len(text) :
                      text[j] = c /\ \A m \in 1..(j - 1) : text[m] # c
         IN  << SubSeq(text, 1, k - 1) >> \o Split(SubSeq(text, k + 1, Len(text)), c)

\* The lines of a text: text.split("\n")
SplitLines(text) == Split(text, "\n")

\* Flatten a sequence of sequences.
RECURSIVE Flatten(_)
Flatten(ss) == IF ss = << >> THEN << >> ELSE ss[1] \o Flatten(Tail(ss))

\* datetime.now().strftime('%Y-%m-%d %H:%M:%S'): the clock is not part of
\* the model, every reading is this one.
Timestamp == << "2", "0", "2", "6", "-", "0", "1", "-", "0", "1", " ", "0", "0", ":", "0", "0", ":", "0", "0" >>

S_txt_title == << "D", "i", "r", "e", "c", "t", "o", "r", "y", " ", "I", "n", "d", "e", "x", ":", " " >>
S_txt_generated == << "G", "e", "n", "e", "r", "a", "t", "e", "d", ":", " " >>
S_marker_dir == << "[", "D", "]" >>
S_marker_file == << "[", "F", "]" >>

\* The rule under the text header: "=" * 60
RuleWidth == 60
Rule == Repeat(<< "=" >>, RuleWidth)

\* format_items (lines 106-113): the lines appended for items at a depth.
RECURSIVE format_items(_, _)
format_items(items, depth) ==
    Flatten([k \in 1..Len(items) |->
        LET item == items[k]
            indent == Repeat(S_indent, depth)
            type_marker == IF item.type = S_directory THEN S_marker_dir ELSE S_marker_file
        IN  << indent \o item.number \o << ".", " " >> \o type_marker \o << " " >>
                   \o item.name >>
                \o (IF item.children # << >>
                    THEN format_items(item.children, depth + 1)
                    ELSE << >>)])

\* generate_txt with a header of the title and the timestamp alone.
generate_txtShortHeader(data) ==
    Join(<< S_txt_title \o data.root,
            S_txt_generated \o Timestamp >>
             \o format_items(data.hierarchy, 0),
         S_newline)

\* generate_txt (lines 97-116)
generate_txt(data) ==
    Join(<< S_txt_title \o data.root,
            S_txt_generated \o Timestamp,
            Rule,
            << >> >>
             \o format_items(data.hierarchy, 0),
         S_newline)

\* JsonString that escapes nothing.
JsonStringRaw(s) == << "\"" >> \o s \o << "\"" >>

\* A JSON string literal as json.dumps(ensure_ascii=False) writes it: in
\* quotes, with quote, backslash and the control characters escaped.
JsonString(s) ==
    << "\"" >>
        \o Flatten([k \in 1..Len(s) |->
                        CASE s[k] = "\"" \/ s[k] = "\\" -> << "\\", s[k] >>
                          [] s[k] = "\n" -> << "\\", "n" >>
                          [] s[k] = "\r" -> << "\\", "r" >>
                          [] s[k] = "\t" -> << "\\", "t" >>
                          [] OTHER -> << s[k] >>])
        \o << "\"" >>

JsonKey(level, key) == Repeat(S_indent, level) \o JsonString(key) \o << ":", " " >>

S_number == << "n", "u", "m", "b", "e", "r" >>
S_name == << "n", "a", "m", "e" >>
S_type == << "t", "y", "p", "e" >>
S_path == << "p", "a", "t", "h" >>
S_children == << "c", "h", "i", "l", "d", "r", "e", "n" >>
S_root_key == << "r", "o", "o", "t" >>
S_hierarchy == << "h", "i", "e", "r", "a", "r", "c", "h", "y" >>

\* The lines json.dumps(indent=2) writes for a list of items that is the
\* value of key at nesting level: "key": [] when empty, else one object per
\* item between the brackets, the items separated by commas.
RECURSIVE JsonItemList(_, _, _)
JsonItemList(level, key, items) ==
    IF items = << >>
    THEN << JsonKey(level, key) \o << "[", "]" >> >>
    ELSE << JsonKey(level, key) \o << "[" >> >>
             \o Flatten([k \in 1..Len(items) |->
                    LET item == items[k]
                        comma == IF k < Len(items) THEN << "," >> ELSE << >>
                    IN  << Repeat(S_indent, level + 1) \o << "{" >>,
                           JsonKey(level + 2, S_number) \o JsonString(item.number) \o << "," >>,
                           JsonKey(level + 2, S_name) \o JsonString(item.name) \o << "," >>,
                           JsonKey(level + 2, S_type) \o JsonString(item.type) \o << "," >>,
                           JsonKey(level + 2, S_path) \o JsonString(item.path) \o << "," >> >>
                            \o JsonItemList(level + 2, S_children, item.children)
                            \o << Repeat(S_indent, level + 1) \o << "}" >> \o comma >>])
             \o << Repeat(S_indent, level) \o << "]" >> >>

\* generate_json (lines 119-121): json.dumps(data, indent=2, ensure_ascii=False)
generate_json(data) ==
    Join(<< << "{" >>,
            JsonKey(1, S_root_key) \o JsonString(data.root) \o << "," >> >>
             \o JsonItemList(1, S_hierarchy, data.hierarchy)
             \o << << "}" >> >>,
         S_newline)

\* Character data and attribute values as minidom writes them.
XmlEscape(s) ==
    Flatten([k \in 1..Len(s) |->
                 CASE s[k] = "&" -> << "&", "a", "m", "p", ";" >>
                   [] s[k] = "<" -> << "&", "l", "t", ";" >>
                   [] s[k] = ">" -> << "&", "g", "t", ";" >>
                   [] s[k] = "\"" -> << "&", "q", "u", "o", "t", ";" >>
                   [] OTHER -> << s[k] >>])

XmlAttr(key, value) == << " " >> \o key \o << "=", "\"" >> \o XmlEscape(value) \o << "\"" >>

XmlTextElement(level, tag, text) ==
    Repeat(S_indent, level) \o << "<" >> \o tag \o << ">" >> \o XmlEscape(text)
        \o << "<", "/" >> \o tag \o << ">" >>

S_item == << "i", "t", "e", "m" >>
S_xml_decl == << "<", "?", "x", "m", "l", " ", "v", "e", "r", "s", "i", "o", "n", "=", "\"", "1", ".", "0", "\"", " ", "?", ">" >>
S_directory_index == << "d", "i", "r", "e", "c", "t", "o", "r", "y", "_", "i", "n", "d", "e", "x" >>
S_root_path == << "r", "o", "o", "t", "_", "p", "a", "t", "h" >>
S_generated == << "g", "e", "n", "e", "r", "a", "t", "e", "d" >>

\* add_items that adds the children element to every item.
RECURSIVE add_itemsAlwaysWrapper(_, _)
add_itemsAlwaysWrapper(level, items) ==
    Flatten([k \in 1..Len(items) |->
        LET item == items[k]
        IN  << Repeat(S_indent, level) \o << "<" >> \o S_item
                   \o XmlAttr(S_number, item.number) \o XmlAttr(S_type, item.type)
                   \o << ">" >>,
               XmlTextElement(level + 1, S_name, item.name),
               XmlTextElement(level + 1, S_path, item.path) >>
                \o (IF item.children # << >>
                    THEN << Repeat(S_indent, level + 1) \o << "<" >> \o S_children \o << ">" >> >>
                             \o add_itemsAlwaysWrapper(level + 2, item.children)
                             \o << Repeat(S_indent, level + 1) \o << "<", "/" >>
                                       \o S_children \o << ">" >> >>
                    ELSE << Repeat(S_indent, level + 1) \o << "<" >> \o S_children
                                \o << "/", ">" >> >>)
                \o << Repeat(S_indent, level) \o << "<", "/" >> \o S_item \o << ">" >> >>])

\* add_items (lines 130-144) and the pretty printer: the lines of the item
\* elements added under an element at nesting level - 1.
RECURSIVE add_items(_, _)
add_items(level, items) ==
    Flatten([k \in 1..Len(items) |->
        LET item == items[k]
        IN  << Repeat(S_indent, level) \o << "<" >> \o S_item
                   \o XmlAttr(S_number, item.number) \o XmlAttr(S_type, item.type)
                   \o << ">" >>,
               XmlTextElement(level + 1, S_name, item.name),
               XmlTextElement(level + 1, S_path, item.path) >>
                \o (IF item.children # << >>
                    THEN << Repeat(S_indent, level + 1) \o << "<" >> \o S_children \o << ">" >> >>
                             \o add_items(level + 2, item.children)
                             \o << Repeat(S_indent, level + 1) \o << "<", "/" >>
                                       \o S_children \o << ">" >> >>
                    ELSE << >>)
                \o << Repeat(S_indent, level) \o << "<", "/" >> \o S_item \o << ">" >> >>])

\* generate_xml (lines 124-149): the element tree, pretty-printed with
\* toprettyxml(indent="  "); an element without children is self-closed and
\* every line, the last one too, ends with a newline.
generate_xml(data) ==
    LET open == << "<" >> \o S_directory_index \o XmlAttr(S_root_path, data.root)
                    \o XmlAttr(S_generated, Timestamp)
    IN  Join(<< S_xml_decl >>
                 \o (IF data.hierarchy = << >>
                     THEN << open \o << "/", ">" >> >>
                     ELSE << open \o << ">" >> >>
                              \o add_items(1, data.hierarchy)
                              \o << << "<", "/" >> \o S_directory_index \o << ">" >> >>)
                 \o << << >> >>,
             S_newline)

(***************************************************************************)
(* State.                                                                  *)
(***************************************************************************)
\* The DirectoryIndexer objects of a behaviour, each with its own
\* HybridPipeline: the one main() constructs and two of library callers.
Indexers == {"cli", "lib1", "lib2"}

\* Path(root_path).resolve().name, the default display name.
RootName == << "r", "o", "o", "t" >>

\* No file written yet.
NoFiles == [n \in {} |-> << >>]

\* args.u: None without -u, '' for -u alone, the file name for -u FILE.
NoUpdate == [given |-> FALSE, file |-> << >>]
Update(file) == [given |-> TRUE, file |-> file]

\* The command line: -u and the flags -a, -j and -x.
Args(u, a, j, x) == [u |-> u, a |-> a, j |-> j, x |-> x]
NoArgs == Args(NoUpdate, FALSE, FALSE, FALSE)

VARIABLES
    fs,         \* what the root path names, and everything below it
    indexer,    \* DirectoryIndexer fields: display_name, hierarchy, item_count
    pipeline,   \* HybridPipeline fields: item_count, on_progress, yield_interval
    pc,         \* per indexer: "idle", or "scanning" inside scan_and_build
    stack,      \* per indexer: the activations of _scan_recursive, outermost first
    progress,   \* per indexer: the calls made to on_progress, in order
    scan_root,  \* per indexer: fs as it was when its running or last scan began
    returned,   \* every scan that has returned: who, of what, hierarchy, count
    files,      \* the text of every file the indexers have written, by name
    main,       \* the command-line run: where it is, its arguments, the index
                \* file update mode found, its exit code
    calls,      \* how many calls of generate_txt, generate_json, generate_xml the
                \* indexers have made
    last,       \* the latest call of a library caller: which, on which indexer,
                \* and what it returned: for generate_output and generate_all the
                \* names of the files, for a serializer its text; for a request
                \* of a front-end its response
    app,        \* the front-end that serves requests, "none" without a server
    sessions,   \* the front-end's module-level dict sessions
    temp_dirs,  \* the directories tempfile.mkdtemp has made, by name: the path
                \* of the output directory in each and the text of its files
    listed      \* per indexer: the paths its running or last scan has passed to
                \* os.scandir, in order, each as the names below the root

\* The state of a front-end.
web == << app, sessions, temp_dirs >>

vars ==
    << fs, indexer, pipeline, pc, stack, progress, scan_root, returned, files, main,
       calls, last, app, sessions, temp_dirs, listed >>

\* The state after the indexers are constructed on a root that is one of
\* roots, with a display name that is one of display_names for all.
InitServing(roots, display_names, apps) ==
    /\ fs \in roots
    /\ \E d \in display_names :
           indexer = [i \in Indexers |->
                         [display_name |-> d, hierarchy |-> << >>, item_count |-> 0]]
    /\ pipeline = [i \in Indexers |->
                      [item_count |-> 0, on_progress |-> FALSE,
                       yield_interval |-> DefaultYieldInterval]]
    /\ pc = [i \in Indexers |-> "idle"]
    /\ stack = [i \in Indexers |-> << >>]
    /\ progress = [i \in Indexers |-> << >>]
    /\ scan_root = [i \in Indexers |-> fs]
    /\ returned = << >>
    /\ files = NoFiles
    /\ main = [pc |-> "off", args |-> NoArgs, existing |-> << >>, exit_code |-> 0]
    /\ calls = [serializers |-> 0]
    /\ last = [op |-> "none", by |-> "none", value |-> << >>]
    /\ app \in apps
    /\ sessions = NoFiles
    /\ temp_dirs = NoFiles
    /\ listed = [i \in Indexers |-> << >>]

\* The same without a server.
InitOf(roots, display_names) == InitServing(roots, display_names, {"none"})

Init == InitOf(RootStates, {RootName})

\* set_progress_callback (lines 39-40), as scan() calls it (line 171)
set_progress_callback(p) == [p EXCEPT !.on_progress = TRUE]

\* ResetCount that leaves the counter as it is.
ResetCountMissing(p) == p

\* self.item_count = 0 (line 48)
ResetCount(p) == [p EXCEPT !.item_count = 0]

\* EmitProgress that reports every count, whatever the cadence.
EmitProgressAlways(p, log, n) ==
    IF p.on_progress
    THEN Append(log, [count |-> n, message |-> "Processing"])
    ELSE log

\* _emit_progress (lines 42-44) after the count has become n.
EmitProgress(p, log, n) ==
    IF p.on_progress /\ n % p.yield_interval = 0
    THEN Append(log, [count |-> n, message |-> "Processing"])
    ELSE log

\* ScanReturns that stores a result in the indexer only when it has items.
ScanReturnsKeepsStale(i, items, count, log) ==
    /\ progress' = [progress EXCEPT ![i] =
                        IF pipeline'[i].on_progress
                        THEN Append(log, [count |-> count, message |-> "Complete"])
                        ELSE log]
    /\ indexer' = IF items = << >> THEN indexer
                  ELSE [indexer EXCEPT ![i].hierarchy = items, ![i].item_count = count]
    /\ returned' = Append(returned,
                          [indexer |-> i, root |-> scan_root'[i],
                           hierarchy |-> indexer'[i].hierarchy,
                           item_count |-> indexer'[i].item_count])
    /\ pc' = [pc EXCEPT ![i] = "idle"]
    /\ stack' = [stack EXCEPT ![i] = << >>]

\* The end of scan_and_build (lines 53-56) and of DirectoryIndexer.scan
\* (lines 172-176): the final progress call, then hierarchy and item_count
\* are stored in the indexer.
ScanReturns(i, items, count, log) ==
    /\ progress' = [progress EXCEPT ![i] =
                        IF pipeline'[i].on_progress
                        THEN Append(log, [count |-> count, message |-> "Complete"])
                        ELSE log]
    /\ indexer' = [indexer EXCEPT ![i].hierarchy = items, ![i].item_count = count]
    /\ returned' = Append(returned,
                          [indexer |-> i, root |-> scan_root'[i],
                           hierarchy |-> items, item_count |-> count])
    /\ pc' = [pc EXCEPT ![i] = "idle"]
    /\ stack' = [stack EXCEPT ![i] = << >>]

\* scan_and_build up to the listing of the root, on the pipeline as its
\* caller has prepared it: the counter is reset, the root listed and
\* sorted. With nothing to visit (or an OSError) the scan returns at once.
ScanAndBuildBegin(i, prepared) ==
    /\ pc[i] = "idle"
    /\ pipeline' = [pipeline EXCEPT ![i] = ResetCount(prepared)]
    /\ scan_root' = [scan_root EXCEPT ![i] = fs]
    /\ listed' = [listed EXCEPT ![i] = << << >> >>]
    /\ LET sorted_entries == ListSorted(fs, << >>)
       IN  IF sorted_entries = << >>
           THEN ScanReturns(i, << >>, pipeline'[i].item_count, progress[i])
           ELSE /\ stack' = [stack EXCEPT ![i] =
                                << Frame(<< >>, << >>, << >>, sorted_entries) >>]
                /\ pc' = [pc EXCEPT ![i] = "scanning"]
                /\ UNCHANGED << indexer, progress, returned >>
    /\ UNCHANGED << fs, files, calls >>

\* DirectoryIndexer.scan up to the listing of the root: the callback is
\* set (line 171), then scan_and_build begins.
ScanBegin(i) == ScanAndBuildBegin(i, set_progress_callback(pipeline[i]))

\* ScanStep with one counter that all pipelines share.
ScanStepSharedCount(i) ==
    /\ pc[i] = "scanning"
    /\ UNCHANGED << fs, scan_root, calls, files, main, last >>
    /\ LET st == stack[i]
           f == st[Len(st)]
           entry == f.sorted_entries[f.idx]
           count == pipeline["lib1"].item_count + 1
           log == EmitProgress(pipeline[i], progress[i], count)
           number == Number(f.parent_number, f.idx)
           item_rel_path == ItemRelPath(f.rel_path, entry.name)
           item == Item(number, entry, item_rel_path)
           entry_path == Append(f.dir_path, entry.name)
           sub == IF entry.is_dir THEN ListSorted(fs, entry_path) ELSE << >>
       IN  /\ pipeline' = [pipeline EXCEPT !["lib1"].item_count = count]
           /\ listed' = [listed EXCEPT ![i] =
                             IF entry.is_dir THEN Append(@, entry_path) ELSE @]
           /\ IF sub # << >>
              THEN /\ stack' = [stack EXCEPT ![i] =
                                   SubSeq(st, 1, Len(st) - 1)
                                       \o << [f EXCEPT !.item = item],
                                             Frame(entry_path, item_rel_path, number, sub) >>]
                   /\ progress' = [progress EXCEPT ![i] = log]
                   /\ UNCHANGED << indexer, returned, pc >>
              ELSE LET u == Unwind(SubSeq(st, 1, Len(st) - 1)
                                       \o << [f EXCEPT !.item = item,
                                                       !.items = Append(@, item),
                                                       !.idx = @ + 1] >>)
                   IN  IF u.done
                       THEN ScanReturns(i, u.items, count, log)
                       ELSE /\ stack' = [stack EXCEPT ![i] = u.stack]
                            /\ progress' = [progress EXCEPT ![i] = log]
                            /\ UNCHANGED << indexer, returned, pc >>
    /\ UNCHANGED web

\* Increment that counts only when a callback is there to report to.
IncrementIfObserved(p, entry) == p.item_count + (IF p.on_progress THEN 1 ELSE 0)

\* Increment that counts files only.
IncrementFilesOnly(p, entry) == p.item_count + (IF entry.is_dir THEN 0 ELSE 1)

\* self.item_count += 1 (line 72), for the entry the loop is at
Increment(p, entry) == p.item_count + 1

\* One iteration of the loop of _scan_recursive (lines 71-90) in the
\* innermost activation: count, report, number, build the item; a directory
\* with something to visit gets a nested activation, anything else is
\* appended, and the activations that are over return.
ScanStep(i) ==
    /\ pc[i] = "scanning"
    /\ UNCHANGED << fs, scan_root, calls, files, main, last >>
    /\ LET st == stack[i]
           f == st[Len(st)]
           entry == f.sorted_entries[f.idx]
           count == Increment(pipeline[i], entry)
           log == EmitProgress(pipeline[i], progress[i], count)
           number == Number(f.parent_number, f.idx)
           item_rel_path == ItemRelPath(f.rel_path, entry.name)
           item == Item(number, entry, item_rel_path)
           entry_path == Append(f.dir_path, entry.name)
           sub == IF entry.is_dir THEN ListSorted(fs, entry_path) ELSE << >>
       IN  /\ pipeline' = [pipeline EXCEPT ![i].item_count = count]
           /\ listed' = [listed EXCEPT ![i] =
                             IF entry.is_dir THEN Append(@, entry_path) ELSE @]
           /\ IF sub # << >>
              THEN /\ stack' = [stack EXCEPT ![i] =
                                   SubSeq(st, 1, Len(st) - 1)
                                       \o << [f EXCEPT !.item = item],
                                             Frame(entry_path, item_rel_path, number, sub) >>]
                   /\ progress' = [progress EXCEPT ![i] = log]
                   /\ UNCHANGED << indexer, returned, pc >>
              ELSE LET u == Unwind(SubSeq(st, 1, Len(st) - 1)
                                       \o << [f EXCEPT !.item = item,
                                                       !.items = Append(@, item),
                                                       !.idx = @ + 1] >>)
                   IN  IF u.done
                       THEN ScanReturns(i, u.items, count, log)
                       ELSE /\ stack' = [stack EXCEPT ![i] = u.stack]
                            /\ progress' = [progress EXCEPT ![i] = log]
                            /\ UNCHANGED << indexer, returned, pc >>
    /\ UNCHANGED web

(***************************************************************************)
(* DirectoryIndexer.generate_output and generate_all                       *)
(***************************************************************************)
S_index_txt == << "d", "i", "r", "e", "c", "t", "o", "r", "y", "_", "i", "n", "d", "e", "x", ".", "t", "x", "t" >>
S_index_json == << "d", "i", "r", "e", "c", "t", "o", "r", "y", "_", "i", "n", "d", "e", "x", ".", "j", "s", "o", "n" >>
S_index_xml == << "d", "i", "r", "e", "c", "t", "o", "r", "y", "_", "i", "n", "d", "e", "x", ".", "x", "m", "l" >>

\* open(root_path / name, 'w') and write: the file is created in the root
\* directory unless it is there already; the open raises when the root is
\* no directory or the name is a directory's. A new name is enumerated
\* after the names already there.
WriteFile(w, name, content) ==
    LET hits == {k \in 1..Len(w.fs.entries) : w.fs.entries[k].name = name}
    IN  IF w.fs.kind # "dir" \/ \E k \in hits : w.fs.entries[k].is_dir
        THEN [w EXCEPT !.raised = TRUE]
        ELSE [w EXCEPT !.fs.entries = IF hits = {} THEN Append(@, FileEntry(name)) ELSE @,
                       !.files = (name :> content) @@ @,
                       !.written = Append(@, name)]

\* generate_output (lines 194-226) on the world w = the file system, the
\* files written, the serializer calls made and whether an exception is
\* propagating. filename << >> is None.
generate_output(w, ix, format_type, filename) ==
    IF w.raised \/ ix.hierarchy = << >>
    THEN w
    ELSE LET data == [root |-> ix.display_name, hierarchy |-> ix.hierarchy]
             ser == [w EXCEPT !.serializers = @ + 1]
             output_name(default_name) == IF filename # << >> THEN filename ELSE default_name
         IN  CASE format_type = "txt" ->
                      WriteFile(ser, output_name(S_index_txt), generate_txt(data))
               [] format_type = "json" ->
                      WriteFile(ser, output_name(S_index_json), generate_json(data))
               [] format_type = "xml" ->
                      WriteFile(ser, output_name(S_index_xml), generate_xml(data))
               [] OTHER -> w

\* generate_all (lines 228-240): for fmt in ['txt', 'json', 'xml']
generate_all(w, ix) ==
    IF ix.hierarchy = << >>
    THEN w
    ELSE generate_output(generate_output(generate_output(w, ix, "txt", << >>),
                                         ix, "json", << >>),
                         ix, "xml", << >>)

World ==
    [fs |-> fs, files |-> files, serializers |-> calls.serializers, raised |-> FALSE,
     written |-> << >>]

\* The state after a call that turned World into w.
Generated(w) ==
    /\ fs' = w.fs
    /\ files' = w.files
    /\ calls' = [calls EXCEPT !.serializers = w.serializers]

FormatTypes == {"txt", "json", "xml", "csv"}

\* GenerateOutput that empties the hierarchy it has written.
GenerateOutputConsumes(i, format_type) ==
    /\ pc[i] = "idle"
    /\ Cardinality(DOMAIN files) < MaxWrites
    /\ LET w == generate_output(World, indexer[i], format_type, << >>)
       IN  /\ Generated(w)
           /\ last' = [op |-> "generate_output", by |-> i, value |-> w.written]
           /\ indexer' = IF w.written = << >> THEN indexer
                         ELSE [indexer EXCEPT ![i].hierarchy = << >>]
    /\ UNCHANGED << pipeline, pc, stack, progress, scan_root, returned, main >>
    /\ UNCHANGED << web, listed >>

\* A library caller calls generate_output(format_type).
GenerateOutput(i, format_type) ==
    /\ pc[i] = "idle"
    /\ Cardinality(DOMAIN files) < MaxWrites
    /\ LET w == generate_output(World, indexer[i], format_type, << >>)
       IN  /\ Generated(w)
           /\ last' = [op |-> "generate_output", by |-> i, value |-> w.written]
    /\ UNCHANGED << indexer, pipeline, pc, stack, progress, scan_root, returned, main >>
    /\ UNCHANGED << web, listed >>

\* A library caller calls generate_all().
GenerateAll(i) ==
    /\ pc[i] = "idle"
    /\ Cardinality(DOMAIN files) < MaxWrites
    /\ LET w == generate_all(World, indexer[i])
       IN  /\ Generated(w)
           /\ last' = [op |-> "generate_all", by |-> i, value |-> w.written]
    /\ UNCHANGED << indexer, pipeline, pc, stack, progress, scan_root, returned, main >>
    /\ UNCHANGED << web, listed >>

(***************************************************************************)
(* main(): the command line.                                               *)
(***************************************************************************)
\* The command lines of the model: each flag alone, several flags at once,
\* and -u alone, with other flags and with a file name.
ArgSets ==
    {NoArgs,
     Args(NoUpdate, TRUE, FALSE, FALSE),
     Args(NoUpdate, FALSE, TRUE, FALSE),
     Args(NoUpdate, FALSE, FALSE, TRUE),
     Args(NoUpdate, TRUE, TRUE, TRUE),
     Args(NoUpdate, FALSE, TRUE, TRUE),
     Args(Update(<< >>), FALSE, FALSE, FALSE),
     Args(Update(<< >>), TRUE, TRUE, TRUE),
     Args(Update(S_index_json), FALSE, FALSE, TRUE),
     Args(Update(<< "B", ".", "t" >>), FALSE, TRUE, FALSE)}

\* Directories that hold an index file of an earlier run next to their
\* other entries.
IndexedRootStates ==
    {[kind |-> "dir", readable |-> TRUE, entries |-> Append(es, FileEntry(name))] :
         es \in ListingsUpTo(Names, TRUE, MaxNodes - 1),
         name \in {S_index_json, S_index_xml}}

\* target.exists() for target = self.root_path / name
Exists(r, name) ==
    r.kind = "dir" /\ \E k \in 1..Len(r.entries) : r.entries[k].name = name

\* find_existing_index (lines 178-192); << >> is None.
find_existing_index(r, filename) ==
    IF filename # << >>
    THEN IF Exists(r, filename) THEN filename ELSE << >>
    ELSE IF Exists(r, S_index_txt) THEN S_index_txt
    ELSE IF Exists(r, S_index_json) THEN S_index_json
    ELSE IF Exists(r, S_index_xml) THEN S_index_xml
    ELSE << >>

\* Path(name).suffix: from the last dot on, unless that dot starts or ends
\* the name.
Suffix(name) ==
    LET dots == {k \in 2..(Len(name) - 1) : name[k] = "."}
    IN  IF dots = {} \/ name[Len(name)] = "." THEN << >>
        ELSE SubSeq(name, CHOOSE k \in dots : \A m \in dots : m <= k, Len(name))

\* The format update mode writes an existing index file in (lines 346-354).
FormatOf(existing) ==
    LET ext == Lower(Suffix(existing))
    IN  CASE ext = << ".", "t", "x", "t" >> -> "txt"
          [] ext = << ".", "j", "s", "o", "n" >> -> "json"
          [] ext = << ".", "x", "m", "l" >> -> "xml"
          [] OTHER -> "txt"

\* main up to the start of the scan (lines 308-343 and the indexer.scan()
\* every mode begins with): a root that does not exist or is no directory
\* ends the run with exit code 1; otherwise the indexer is constructed,
\* update mode looks for the index file, and the scan begins.
MainStart(args) ==
    /\ main.pc = "off"
    /\ IF fs.kind # "dir"
       THEN /\ main' = [pc |-> "done", args |-> args, existing |-> << >>, exit_code |-> 1]
            /\ UNCHANGED << fs, indexer, pipeline, pc, stack, progress, scan_root,
                            returned, files, calls, listed >>
       ELSE /\ main' = [pc |-> "scan", args |-> args,
                        existing |-> IF args.u.given
                                     THEN find_existing_index(fs, args.u.file)
                                     ELSE << >>,
                        exit_code |-> 0]
            /\ ScanBegin("cli")
    /\ UNCHANGED last
    /\ UNCHANGED web

\* main after its scan has returned (lines 345-397): the outputs the mode
\* selects, then exit code 0, or 1 when an exception reached main.
MainGenerate ==
    /\ main.pc = "scan"
    /\ pc["cli"] = "idle"
    /\ LET ix == indexer["cli"]
           w == IF main.args.u.given
                THEN IF main.existing # << >>
                     THEN generate_output(World, ix, FormatOf(main.existing), main.existing)
                     ELSE generate_output(World, ix, "txt", << >>)
                ELSE IF main.args.a THEN generate_all(World, ix)
                ELSE IF main.args.j THEN generate_output(World, ix, "json", << >>)
                ELSE IF main.args.x THEN generate_output(World, ix, "xml", << >>)
                ELSE generate_output(World, ix, "txt", << >>)
       IN  /\ Generated(w)
           /\ main' = [main EXCEPT !.pc = "done",
                                   !.exit_code = IF w.raised THEN 1 ELSE 0]
    /\ UNCHANGED << indexer, pipeline, pc, stack, progress, scan_root, returned, last >>
    /\ UNCHANGED << web, listed >>

\* Scans do not overlap in this specification.
NoScanRunning == \A j \in Indexers : pc[j] = "idle"

\* A library caller calls scan().
Scan(i) ==
    /\ Len(returned) < MaxScans
    /\ ScanBegin(i)
    /\ last' = [op |-> "scan", by |-> i, value |-> << >>]
    /\ UNCHANGED main
    /\ UNCHANGED web

\* A library caller calls scan_and_build of a pipeline it has set no
\* callback on, and keeps what it returns.
ScanAndBuild(i) ==
    /\ Len(returned) < MaxScans
    /\ ~pipeline[i].on_progress
    /\ ScanAndBuildBegin(i, pipeline[i])
    /\ last' = [op |-> "scan_and_build", by |-> i, value |-> << >>]
    /\ UNCHANGED main
    /\ UNCHANGED web

Libraries == Indexers \ {"cli"}

\* One indexer of a library caller: a scan, and output generation before
\* and after it.
Next ==
    \/ returned = << >> /\ NoScanRunning /\ Scan("lib1")
    \/ ScanStep("lib1")
    \/ \E t \in FormatTypes : NoScanRunning /\ GenerateOutput("lib1", t)
    \/ NoScanRunning /\ GenerateAll("lib1")

Spec == Init /\ [][Next]_vars

\* One scan of the tree.
NextScan ==
    \/ returned = << >> /\ NoScanRunning /\ Scan("lib1")
    \/ ScanStep("lib1")

SpecScan == Init /\ [][NextScan]_vars

\* Scans one after the other, by one indexer or by two: lib2 comes into
\* play when a scan of lib1 has returned.
NextRescan ==
    \/ \E i \in Libraries :
           NoScanRunning /\ (i = "lib1" \/ returned # << >>) /\ Scan(i)
    \/ \E i \in Libraries : ScanStep(i)

SpecRescan == Init /\ [][NextRescan]_vars

\* One run of the command line.
NextMain ==
    \/ \E args \in ArgSets : MainStart(args)
    \/ ScanStep("cli")
    \/ MainGenerate

InitMain == InitOf(RootStates \cup IndexedRootStates, {RootName})

SpecMain == InitMain /\ [][NextMain]_vars

(***************************************************************************)
(* The permissions of the scanned tree change between two scans: what      *)
(* os.scandir raises for is decided by the file system, not by the scan.   *)
(***************************************************************************)
\* The paths, as sequences of names, of the directories below a listing.
RECURSIVE DirPaths(_)
DirPaths(es) ==
    UNION {IF es[k].is_dir
           THEN {<< es[k].name >>}
                    \cup {<< es[k].name >> \o p : p \in DirPaths(es[k].entries)}
           ELSE {} : k \in 1..Len(es)}

\* The listing with the directory at path made unreadable if it was
\* readable and readable if it was not; what it holds stays.
RECURSIVE ChmodAt(_, _)
ChmodAt(es, path) ==
    [k \in 1..Len(es) |->
        IF es[k].name # path[1] THEN es[k]
        ELSE IF Len(path) = 1 THEN [es[k] EXCEPT !.readable = ~@]
        ELSE [es[k] EXCEPT !.entries = ChmodAt(@, Tail(path))]]

\* The owner changes the mode of the root (path << >>) or of a directory
\* below it, so that os.scandir of it raises PermissionError from now on,
\* or no longer does.
Chmod(path) ==
    /\ fs.kind = "dir"
    /\ fs' = IF path = << >>
             THEN [fs EXCEPT !.readable = ~@]
             ELSE [fs EXCEPT !.entries = ChmodAt(@, path)]
    /\ UNCHANGED << indexer, pipeline, pc, stack, progress, scan_root, returned, files,
                    main, calls, last >>
    /\ UNCHANGED << web, listed >>

\* One indexer scans, the mode of one directory changes, it scans again.
NextChmod ==
    \/ NoScanRunning /\ (returned = << >> \/ fs # scan_root["lib1"]) /\ Scan("lib1")
    \/ ScanStep("lib1")
    \/ \E path \in {<< >>} \cup DirPaths(fs.entries) :
           /\ NoScanRunning
           /\ Len(returned) = 1
           /\ fs = scan_root["lib1"]
           /\ Chmod(path)

SpecChmod == Init /\ [][NextChmod]_vars

(***************************************************************************)
(* The output generators called on what an indexer holds, for trees whose  *)
(* names have special characters.                                          *)
(***************************************************************************)
\* display_name: the default, or one given to DirectoryIndexer.
S_custom_name == << "R", "&", "\"", "D" >>
DisplayNames == {RootName, S_custom_name}

Serializers == {"generate_txt", "generate_json", "generate_xml"}

\* data = {"root": self.display_name, "hierarchy": self.hierarchy}
DataOf(ix) == [root |-> ix.display_name, hierarchy |-> ix.hierarchy]

\* A caller passes the data of an indexer to one of the output generators
\* and keeps the text it returns.
CallSerializer(i, f) ==
    /\ pc[i] = "idle"
    /\ last' = [op |-> f, by |-> i,
                value |-> CASE f = "generate_txt" -> generate_txt(DataOf(indexer[i]))
                            [] f = "generate_json" -> generate_json(DataOf(indexer[i]))
                            [] f = "generate_xml" -> generate_xml(DataOf(indexer[i]))]
    /\ UNCHANGED << fs, indexer, pipeline, pc, stack, progress, scan_root, returned,
                    files, main, calls >>
    /\ UNCHANGED << web, listed >>

InitSerialize == InitOf(SpecialRootStates, DisplayNames)

NextSerialize ==
    \/ returned = << >> /\ NoScanRunning /\ Scan("lib1")
    \/ ScanStep("lib1")
    \/ \E f \in Serializers : CallSerializer("lib1", f)

SpecSerialize == InitSerialize /\ [][NextSerialize]_vars

\* One scan, and around it the output generators and generate_output and
\* generate_all, in any order.
NextGenerate ==
    \/ returned = << >> /\ NoScanRunning /\ Scan("lib1")
    \/ ScanStep("lib1")
    \/ \E f \in Serializers : CallSerializer("lib1", f)
    \/ \E t \in FormatTypes : GenerateOutput("lib1", t)
    \/ GenerateAll("lib1")

InitGenerate == InitOf(SpecialRootStates, {S_custom_name})

SpecGenerate == InitGenerate /\ [][NextGenerate]_vars

(***************************************************************************)
(* Two callers, each with a DirectoryIndexer of its own, scan at the same  *)
(* time: their loop iterations interleave.                                 *)
(***************************************************************************)
\* _scan_recursive (lines 58-92) run on its own, from the listing of
\* dir_path to the items it returns.
RECURSIVE scan_recursive(_, _, _, _)
scan_recursive(r, dir_path, rel_path, parent_number) ==
    LET sorted_entries == ListSorted(r, dir_path)
    IN  [idx \in 1..Len(sorted_entries) |->
            LET entry == sorted_entries[idx]
                number == Number(parent_number, idx)
                item_rel_path == ItemRelPath(rel_path, entry.name)
                item == Item(number, entry, item_rel_path)
            IN  IF entry.is_dir
                THEN [item EXCEPT !.children =
                          scan_recursive(r, Append(dir_path, entry.name),
                                         item_rel_path, number)]
                ELSE item]

\* A caller sets the pipeline's yield_interval (the attribute of line 37).
SetYieldInterval(i, n) ==
    /\ pc[i] = "idle"
    /\ pipeline' = [pipeline EXCEPT ![i].yield_interval = n]
    /\ UNCHANGED << fs, indexer, pc, stack, progress, scan_root, returned, files, main,
                    calls, last >>
    /\ UNCHANGED << web, listed >>

HasScanned(i) == \E k \in 1..Len(returned) : returned[k].indexer = i

\* Each of the two indexers scans once; a scan may begin while the other
\* is under way, and the first caller may ask for a progress call for
\* every item.
NextInterleave ==
    \/ \E i \in Libraries : ~HasScanned(i) /\ Scan(i)
    \/ \E i \in Libraries : ScanStep(i)
    \/ /\ NoScanRunning
       /\ returned = << >>
       /\ pipeline["lib1"].yield_interval = DefaultYieldInterval
       /\ SetYieldInterval("lib1", 1)

InitInterleave == InitOf(SpecialRootStates, {RootName})

SpecInterleave == InitInterleave /\ [][NextInterleave]_vars

\* Two pipelines scan the same tree one after the other, in either order:
\* that of lib1 through DirectoryIndexer.scan, which sets a callback, that
\* of lib2 with no callback; lib1's caller may ask for a progress call for
\* every item.
NextCallback ==
    \/ NoScanRunning /\ ~HasScanned("lib1") /\ Scan("lib1")
    \/ NoScanRunning /\ ~HasScanned("lib2") /\ ScanAndBuild("lib2")
    \/ \E i \in Libraries : ScanStep(i)
    \/ /\ NoScanRunning
       /\ ~HasScanned("lib1")
       /\ pipeline["lib1"].yield_interval = DefaultYieldInterval
       /\ SetYieldInterval("lib1", 1)

SpecCallback == Init /\ [][NextCallback]_vars

\* The cadences a caller sets the pipeline to.
YieldIntervals == {1, 2}

\* One indexer scans, and scans again; before the first scan its caller
\* may set the cadence of the progress calls.
NextProgress ==
    \/ NoScanRunning /\ Scan("lib1")
    \/ ScanStep("lib1")
    \/ \E n \in YieldIntervals :
           /\ NoScanRunning
           /\ returned = << >>
           /\ pipeline["lib1"].yield_interval = DefaultYieldInterval
           /\ SetYieldInterval("lib1", n)

SpecProgress == InitInterleave /\ [][NextProgress]_vars

(***************************************************************************)
(* The HTTP front-ends: web_server.py, pwa_app.py, pwa_mobile.py and       *)
(* pwa_app_mobile.py. Each imports DirectoryIndexer, keeps a module-level  *)
(* dict sessions, and serves POST /index and GET /download.                *)
(***************************************************************************)
FrontEnds == {"web_server", "pwa_app", "pwa_mobile", "pwa_app_mobile"}

\* How many requests of POST /index the model follows.
MaxSessions == 2

\* The names tempfile.mkdtemp gives to the directories it makes.
TempNames == {"tmp" \o ToString(k) : k \in 1..MaxSessions}

\* The form fields json, xml and txt of POST /index, each compared with
\* 'true'.
FormFlags == [json : BOOLEAN, xml : BOOLEAN, txt : BOOLEAN]
AllFormats == [json |-> TRUE, xml |-> TRUE, txt |-> TRUE]

\* pwa_app_mobile reads no flags and passes True for each format.
FlagsRead(a, form) == IF a = "pwa_app_mobile" THEN AllFormats ELSE form

\* filename_map of download
filename_map ==
    [json |-> S_index_json, xml |-> S_index_xml, txt |-> S_index_txt]

\* f"Items_in_{folder_name}"
Items_in(folder_name) ==
    << "I", "t", "e", "m", "s", "_", "i", "n", "_" >> \o folder_name

\* DirectoryIndexer._count_items(hierarchy): the number of nodes of the
\* tree.
RECURSIVE _count_items(_)
_count_items(items) ==
    IF items = << >> THEN 0
    ELSE 1 + _count_items(Head(items).children) + _count_items(Tail(items))

\* DirectoryIndexer.process(json_output, xml_output, txt_output,
\* output_base_dir, auto_open=False) on root r: one scan, then the text of
\* each requested format, written as directory_index.<format> to the
\* directory Items_in_<folder name> under output_base_dir. The result is
\* the indexer's hierarchy and the files below output_base_dir by path.
process(r, folder_name, flags) ==
    LET Outputs(hierarchy) ==
            LET data == [root |-> folder_name, hierarchy |-> hierarchy]
                text(name) == CASE name = S_index_json -> generate_json(data)
                                [] name = S_index_xml -> generate_xml(data)
                                [] name = S_index_txt -> generate_txt(data)
                chosen == {t \in DOMAIN flags : flags[t]}
            IN  [hierarchy |-> hierarchy,
                 files |-> [path \in {<< Items_in(folder_name), filename_map[t] >> :
                                          t \in chosen}
                               |-> text(path[2])]]
    IN  CHOOSE made \in {Outputs(h) : h \in {scan_recursive(r, << >>, << >>, << >>)}} :
            TRUE

\* os.path.exists(os.path.join(output_dir, name))
TempExists(dirs, output_dir, name) ==
    /\ output_dir.temp_dir \in DOMAIN dirs
    /\ << output_dir.name, name >> \in DOMAIN dirs[output_dir.temp_dir]

\* index_directory that returns success without storing the session.
index_directoryForgets(a, r, ss, dirs, temp_dir, dir_path, form) ==
    IF dir_path = << >> \/ r.kind = "missing"
    THEN [response |-> [success |-> FALSE, error |-> "Invalid directory path"],
          sessions |-> ss, temp_dirs |-> dirs]
    ELSE LET flags == FlagsRead(a, form)
             made == process(r, dir_path, flags)
         IN  [response |-> [success |-> TRUE, session |-> temp_dir,
                            output_dir |-> Items_in(dir_path),
                            item_count |-> _count_items(made.hierarchy),
                            files |-> flags],
              sessions |-> ss,
              temp_dirs |-> (temp_dir :> made.files) @@ dirs]

\* index_directory of front-end a, with root r, the dict ss, the temporary
\* directories dirs and the name temp_dir mkdtemp gives if it is called:
\* the response, the dict and the temporary directories after the request.
\* dir_path << >> is a missing or empty form field.
index_directory(a, r, ss, dirs, temp_dir, dir_path, form) ==
    IF dir_path = << >> \/ r.kind = "missing"
    THEN [response |-> [success |-> FALSE, error |-> "Invalid directory path"],
          sessions |-> ss, temp_dirs |-> dirs]
    ELSE LET flags == FlagsRead(a, form)
             made == process(r, dir_path, flags)
             output_dir == [temp_dir |-> temp_dir, name |-> Items_in(dir_path)]
         IN  [response |-> [success |-> TRUE, session |-> temp_dir,
                            output_dir |-> Items_in(dir_path),
                            item_count |-> _count_items(made.hierarchy),
                            files |-> flags],
              sessions |-> (temp_dir :> [output_dir |-> output_dir, files |-> flags])
                               @@ ss,
              temp_dirs |-> (temp_dir :> made.files) @@ dirs]

\* download that looks at the type before the session.
downloadTypeFirst(ss, dirs, session_id, file_type) ==
    IF file_type \notin DOMAIN filename_map
    THEN [status |-> 400, body |-> "Invalid file type"]
    ELSE IF session_id \notin DOMAIN ss
    THEN [status |-> 404, body |-> "Session not found"]
    ELSE IF ~TempExists(dirs, ss[session_id].output_dir, filename_map[file_type])
    THEN [status |-> 404, body |-> "File not found"]
    ELSE [status |-> 200,
          body |-> dirs[ss[session_id].output_dir.temp_dir]
                       [<< ss[session_id].output_dir.name, filename_map[file_type] >>],
          download_name |-> filename_map[file_type]]

\* download: the response to GET /download?session=session_id&type=file_type
download(ss, dirs, session_id, file_type) ==
    IF session_id \notin DOMAIN ss
    THEN [status |-> 404, body |-> "Session not found"]
    ELSE IF file_type \notin DOMAIN filename_map
    THEN [status |-> 400, body |-> "Invalid file type"]
    ELSE IF ~TempExists(dirs, ss[session_id].output_dir, filename_map[file_type])
    THEN [status |-> 404, body |-> "File not found"]
    ELSE [status |-> 200,
          body |-> dirs[ss[session_id].output_dir.temp_dir]
                       [<< ss[session_id].output_dir.name, filename_map[file_type] >>],
          download_name |-> filename_map[file_type]]

\* A client sends POST /index.
IndexDirectory(dir_path, form) ==
    /\ app \in FrontEnds
    /\ Cardinality(DOMAIN temp_dirs) < MaxSessions
    /\ \E temp_dir \in TempNames \ DOMAIN temp_dirs :
           LET after == index_directory(app, fs, sessions, temp_dirs, temp_dir,
                                        dir_path, form)
           IN  /\ sessions' = after.sessions
               /\ temp_dirs' = after.temp_dirs
               /\ last' = [op |-> "POST /index", by |-> app,
                           value |-> [request |-> [dirPath |-> dir_path, form |-> form],
                                      response |-> after.response]]
    /\ UNCHANGED << fs, indexer, pipeline, pc, stack, progress, scan_root, returned,
                    files, main, calls, app, listed >>

\* A client sends GET /download.
Download(session_id, file_type) ==
    /\ app \in FrontEnds
    /\ last' = [op |-> "GET /download", by |-> app,
                value |-> [request |-> [session |-> session_id, type |-> file_type],
                           response |-> download(sessions, temp_dirs, session_id,
                                                 file_type)]]
    /\ UNCHANGED << fs, indexer, pipeline, pc, stack, progress, scan_root, returned,
                    files, main, calls, web, listed >>

\* What a client may send as session and as type.
SessionArgs == TempNames \cup {"tmp0"}
TypeArgs == {"json", "xml", "txt", "csv"}

\* The form fields a client sends: no format, one, two, or all.
FormChoices ==
    {form \in FormFlags : form.xml = form.txt}

\* The roots the front-ends are asked to index: an empty directory, one
\* with a file, one with a hidden file, a file and a directory that holds
\* a file, one that cannot be listed, a file, and a path that names
\* nothing.
HttpRootStates ==
    {[kind |-> "dir", readable |-> TRUE, entries |-> es] :
         es \in {<< >>,
                 << FileEntry(<< "\"", "q" >>) >>,
                 << FileEntry(<< ".", "h" >>), FileEntry(<< "a" >>),
                    DirEntry(<< "A" >>, << FileEntry(<< "<", "&", "\n", "b" >>) >>) >>}}
        \cup {[kind |-> "dir", readable |-> FALSE, entries |-> << >>],
              [kind |-> "file", readable |-> TRUE, entries |-> << >>],
              [kind |-> "missing", readable |-> TRUE, entries |-> << >>]}

NextHttp ==
    \/ \E dir_path \in {<< >>, RootName}, form \in FormChoices :
           IndexDirectory(dir_path, form)
    \/ \E session_id \in SessionArgs, file_type \in TypeArgs :
           Download(session_id, file_type)

InitHttp == InitServing(HttpRootStates, {RootName}, FrontEnds)

SpecHttp == InitHttp /\ [][NextHttp]_vars

(***************************************************************************)
(* The directory browsers: browse_directory of pwa_mobile.py (GET /browse) *)
(* and browse of pwa_app_mobile.py (POST /browse). A path is the names     *)
(* from the root down, << >> for the root itself.                          *)
(***************************************************************************)
Browsers == {"pwa_mobile", "pwa_app_mobile"}

Missing == [kind |-> "missing", readable |-> TRUE, entries |-> << >>]

\* What path names in file system state r.
RECURSIVE Stat(_, _)
Stat(r, path) ==
    IF path = << >> THEN r
    ELSE IF r.kind # "dir" THEN Missing
    ELSE LET hits == {k \in 1..Len(r.entries) : r.entries[k].name = path[1]}
         IN  IF hits = {} THEN Missing
             ELSE LET e == r.entries[CHOOSE k \in hits : TRUE]
                  IN  Stat([kind |-> IF e.is_dir THEN "dir" ELSE "file",
                            readable |-> e.readable, entries |-> e.entries],
                           Tail(path))

\* os.access(path, os.R_OK) on what path names. The call asks the
\* permission bits; with lenient it says yes although listing the
\* directory is refused (permissions beyond the bits, as the library's
\* documentation warns).
Access(node, lenient) == node.kind # "missing" /\ (node.readable \/ lenient)

\* Every path below the entries es, of files and directories alike.
RECURSIVE AllPaths(_)
AllPaths(es) ==
    UNION {{<< es[k].name >>}
               \cup {<< es[k].name >> \o p : p \in AllPaths(es[k].entries)}
           : k \in 1..Len(es)}

\* sorted(names): by code points.
RECURSIVE InsertName(_, _)
InsertName(s, x) ==
    IF s = << >> THEN << x >>
    ELSE IF StrLess(x.name, s[1].name) THEN << x >> \o s
    ELSE << s[1] >> \o InsertName(Tail(s), x)

RECURSIVE SortedNames(_)
SortedNames(s) ==
    IF s = << >> THEN << >>
    ELSE InsertName(SortedNames(SubSeq(s, 1, Len(s) - 1)), s[Len(s)])

\* The breadcrumb of browse_directory, from the root on.
Parents(path) == [k \in 1..Len(path) |-> SubSeq(path, 1, k - 1)]

\* browse_directory without the os.access check of the path.
browse_directoryNoAccessCheck(r, given, path, lenient) ==
    IF ~given
    THEN [success |-> TRUE, current_path |-> << >>, parents |-> << >>,
          items |-> IF r.kind # "missing"
                    THEN << [name |-> RootName, path |-> << >>, is_dir |-> TRUE,
                             can_enter |-> Access(r, lenient)] >>
                    ELSE << >>]
    ELSE LET node == Stat(r, path)
         IN  IF node.kind = "missing"
             THEN [success |-> FALSE, error |-> "Path does not exist"]
             ELSE IF node.kind = "file"
             THEN [success |-> FALSE, error |-> "[Errno 20] Not a directory"]
             ELSE LET entries == IF node.readable
                                 THEN SelectSeq(SortedNames(node.entries), Visible)
                                 ELSE << >>
                  IN  [success |-> TRUE, current_path |-> path,
                       parents |-> Parents(path),
                       items |-> [k \in 1..Len(entries) |->
                                     [name |-> entries[k].name,
                                      path |-> Append(path, entries[k].name),
                                      is_dir |-> entries[k].is_dir,
                                      can_enter |-> entries[k].is_dir
                                                      /\ (entries[k].readable \/ lenient)]]]

\* browse_directory of pwa_mobile (lines 733-803) on root r; given is
\* whether the request has a non-empty path.
browse_directory(r, given, path, lenient) ==
    IF ~given
    THEN [success |-> TRUE, current_path |-> << >>, parents |-> << >>,
          items |-> IF r.kind # "missing"
                    THEN << [name |-> RootName, path |-> << >>, is_dir |-> TRUE,
                             can_enter |-> Access(r, lenient)] >>
                    ELSE << >>]
    ELSE LET node == Stat(r, path)
         IN  IF node.kind = "missing"
             THEN [success |-> FALSE, error |-> "Path does not exist"]
             ELSE IF ~Access(node, lenient)
             THEN [success |-> FALSE, error |-> "Permission denied"]
             ELSE IF node.kind = "file"
             THEN [success |-> FALSE, error |-> "[Errno 20] Not a directory"]
             ELSE LET entries == IF node.readable
                                 THEN SelectSeq(SortedNames(node.entries), Visible)
                                 ELSE << >>
                  IN  [success |-> TRUE, current_path |-> path,
                       parents |-> Parents(path),
                       items |-> [k \in 1..Len(entries) |->
                                     [name |-> entries[k].name,
                                      path |-> Append(path, entries[k].name),
                                      is_dir |-> entries[k].is_dir,
                                      can_enter |-> entries[k].is_dir
                                                      /\ (entries[k].readable \/ lenient)]]]

\* browse of pwa_app_mobile (lines 456-487) on root r; without a path in
\* the request the home directory is listed.
browse(r, given, path) ==
    LET node == Stat(r, IF given THEN path ELSE << >>)
    IN  IF node.kind = "missing"
        THEN [success |-> FALSE, error |-> "Path does not exist"]
        ELSE IF node.kind # "dir"
        THEN [success |-> FALSE, error |-> "Not a directory"]
        ELSE IF ~node.readable
        THEN [success |-> FALSE, error |-> "Permission denied"]
        ELSE LET here == IF given THEN path ELSE << >>
                 entries == SelectSeq(Sorted(node.entries), Visible)
             IN  [success |-> TRUE,
                  items |-> [k \in 1..Len(entries) |->
                                [name |-> entries[k].name,
                                 path |-> Append(here, entries[k].name),
                                 is_dir |-> entries[k].is_dir]]]

\* A client of pwa_mobile sends GET /browse.
BrowseDirectory(given, path, lenient) ==
    /\ app = "pwa_mobile"
    /\ last.op = "none"
    /\ last' = [op |-> "GET /browse", by |-> app,
                value |-> [request |-> [given |-> given, path |-> path,
                                        lenient |-> lenient],
                           response |-> browse_directory(fs, given, path, lenient)]]
    /\ UNCHANGED << fs, indexer, pipeline, pc, stack, progress, scan_root, returned,
                    files, main, calls, web, listed >>

\* A client of pwa_app_mobile sends POST /browse.
Browse(given, path) ==
    /\ app = "pwa_app_mobile"
    /\ last.op = "none"
    /\ last' = [op |-> "POST /browse", by |-> app,
                value |-> [request |-> [given |-> given, path |-> path,
                                        lenient |-> FALSE],
                           response |-> browse(fs, given, path)]]
    /\ UNCHANGED << fs, indexer, pipeline, pc, stack, progress, scan_root, returned,
                    files, main, calls, web, listed >>

\* The paths a client asks for: the root, every path below it, and one
\* that names nothing.
BrowsePaths == {<< >>} \cup AllPaths(fs.entries) \cup {<< << "n", "o" >> >>}

\* One request to a browser: a request changes no state, so the responses
\* to the first request are the responses to every request.
NextBrowse ==
    \/ \E path \in BrowsePaths, lenient \in BOOLEAN :
           BrowseDirectory(TRUE, path, lenient)
    \/ \E lenient \in BOOLEAN : BrowseDirectory(FALSE, << >>, lenient)
    \/ \E path \in BrowsePaths : Browse(TRUE, path)
    \/ Browse(FALSE, << >>)

InitBrowse == InitServing(RootStates, {RootName}, Browsers)

SpecBrowse == InitBrowse /\ [][NextBrowse]_vars

(***************************************************************************)
(* Properties.                                                             *)
(***************************************************************************)
\* Every node of a hierarchy in pre-order, with its position (rank) in the
\* list that holds it, its depth (1 at the root level), the node whose
\* children list holds it (NoItem at the root level) and the names from
\* the root level down to it.
RECURSIVE Nodes(_, _, _, _)
Nodes(items, parent, depth, names) ==
    Flatten([k \in 1..Len(items) |->
        << [item |-> items[k], parent |-> parent, rank |-> k, depth |-> depth,
            names |-> Append(names, items[k].name)] >>
            \o Nodes(items[k].children, items[k], depth + 1,
                     Append(names, items[k].name))])

NodesOf(hierarchy) == Nodes(hierarchy, NoItem, 1, << >>)

\* Every list of siblings of a hierarchy: the root list and each node's
\* children list, with the names leading to the directory it lists.
ListsOf(hierarchy) ==
    {[names |-> << >>, items |-> hierarchy]}
        \cup {[names |-> n.names, items |-> n.item.children] :
                  n \in {NodesOf(hierarchy)[k] : k \in 1..Len(NodesOf(hierarchy))}}

Returned == {returned[k] : k \in 1..Len(returned)}

Hidden(name) == name[1] = "."

VisibleEntries(es) == SelectSeq(es, LAMBDA e : ~Hidden(e.name))

Listable(r) == r.kind = "dir" /\ r.readable

\* C1: a scan of a directory with N visible immediate children returns
\* exactly N root-level nodes, numbered "1", "2", ..., "N" in that order.
C1_RootNumbers ==
    \A rec \in Returned :
        Listable(rec.root) =>
            LET N == Len(VisibleEntries(rec.root.entries))
            IN  /\ Len(rec.hierarchy) = N
                /\ \A k \in 1..N : rec.hierarchy[k].number = Str(k)

\* A scan has returned for a root with a hidden entry enumerated before two
\* visible ones.
C1_Witness ==
    \E rec \in Returned :
        /\ Listable(rec.root)
        /\ Len(rec.root.entries) = 3
        /\ Hidden(rec.root.entries[1].name)
        /\ Len(rec.hierarchy) = 2

\* C2: a root-level node's number is its 1-based position k in the root
\* list; any other node's number is <parent.number>.<k>, k its 1-based
\* position in the children list of its parent, a directory node.
C2_NumberFromParent ==
    \A rec \in Returned :
        \A j \in 1..Len(NodesOf(rec.hierarchy)) :
            LET n == NodesOf(rec.hierarchy)[j]
            IN  IF n.depth = 1
                THEN n.item.number = Str(n.rank)
                ELSE /\ n.parent.type = S_directory
                     /\ n.item.number = n.parent.number \o << "." >> \o Str(n.rank)

\* A returned tree has a node two levels below a root-level node.
C2_Witness ==
    \E rec \in Returned :
        \E j \in 1..Len(NodesOf(rec.hierarchy)) :
            /\ NodesOf(rec.hierarchy)[j].depth = 3
            /\ NodesOf(rec.hierarchy)[j].item.number = << "1", ".", "1", ".", "1" >>

\* C3: in every list of siblings of a returned tree the directories come
\* before the files, and within each kind the lowercased names do not
\* decrease.
C3_SiblingOrder ==
    \A rec \in Returned :
        \A l \in ListsOf(rec.hierarchy) :
            \A p, q \in 1..Len(l.items) :
                p < q =>
                    /\ l.items[p].type = S_file => l.items[q].type = S_file
                    /\ l.items[p].type = l.items[q].type =>
                           ~StrLess(Lower(l.items[q].name), Lower(l.items[p].name))

\* A returned list of three starts with a directory whose lowercased name
\* is greater than that of the file after it, and its two files are in the
\* opposite of their raw code-point order.
C3_Witness ==
    \E rec \in Returned :
        /\ Len(rec.hierarchy) = 3
        /\ rec.hierarchy[1].type = S_directory
        /\ rec.hierarchy[2].type = S_file
        /\ rec.hierarchy[3].type = S_file
        /\ StrLess(Lower(rec.hierarchy[2].name), Lower(rec.hierarchy[1].name))
        /\ StrLess(rec.hierarchy[3].name, rec.hierarchy[2].name)

\* The number of entries that are not hidden and lie under listable
\* directories that are not hidden.
RECURSIVE CountVisible(_)
CountVisible(es) ==
    IF es = << >> THEN 0
    ELSE (IF Hidden(es[1].name) THEN 0
          ELSE 1 + (IF es[1].is_dir /\ es[1].readable
                    THEN CountVisible(es[1].entries) ELSE 0))
             + CountVisible(Tail(es))

\* Every name of a hidden entry, at any depth.
RECURSIVE HiddenNames(_)
HiddenNames(es) ==
    UNION {(IF Hidden(es[k].name) THEN {es[k].name} ELSE {})
               \cup HiddenNames(es[k].entries) : k \in 1..Len(es)}

\* C4: an entry whose name starts with '.' never becomes a node: no node
\* has its name or a path through it, the root ranks are those of the
\* visible entries alone, item_count counts the visible entries under
\* visible directories only, and no written output contains its name.
C4_HiddenExcluded ==
    /\ \A rec \in Returned :
           /\ \A j \in 1..Len(NodesOf(rec.hierarchy)) :
                  LET n == NodesOf(rec.hierarchy)[j]
                  IN  /\ ~Hidden(n.item.name)
                      /\ ~Hidden(n.item.path)
                      /\ ~Contains(n.item.path, << "/", "." >>)
           /\ Len(rec.hierarchy) = Len(VisibleEntries(rec.root.entries))
           /\ rec.item_count = CountVisible(rec.root.entries)
           /\ Len(NodesOf(rec.hierarchy)) = rec.item_count
    /\ \A f \in DOMAIN files :
           \A h \in HiddenNames(fs.entries) : ~Contains(files[f], h)

\* The root held a hidden directory with an entry of its own, enumerated
\* before a visible entry; it was scanned and the three outputs written.
C4_Witness ==
    /\ \E rec \in Returned :
           /\ Len(rec.root.entries) = 2
           /\ Hidden(rec.root.entries[1].name)
           /\ rec.root.entries[1].is_dir
           /\ rec.root.entries[1].entries # << >>
           /\ Len(rec.hierarchy) = 1
    /\ Cardinality(DOMAIN files) = 3

\* C5: a root-level node's path is its name; any other node's path is
\* <parent.path>/<name>; so a path is the names from the root level down to
\* the node, joined with "/".
C5_PathFromParent ==
    \A rec \in Returned :
        \A j \in 1..Len(NodesOf(rec.hierarchy)) :
            LET n == NodesOf(rec.hierarchy)[j]
            IN  /\ n.item.path =
                       IF n.depth = 1 THEN n.item.name
                       ELSE n.parent.path \o << "/" >> \o n.item.name
                /\ n.item.path = Join(n.names, << "/" >>)

\* A returned tree has a node below the second root-level node.
C5_Witness ==
    \E rec \in Returned :
        \E j \in 1..Len(NodesOf(rec.hierarchy)) :
            LET n == NodesOf(rec.hierarchy)[j]
            IN  n.depth = 2 /\ n.parent.number = << "2" >>

\* C6: no two nodes of a returned tree have the same number, and a node's
\* number has as many dot-separated components as the node's depth.
C6_NumbersUnique ==
    \A rec \in Returned :
        LET ns == NodesOf(rec.hierarchy)
        IN  /\ \A j, k \in 1..Len(ns) : j # k => ns[j].item.number # ns[k].item.number
            /\ \A j \in 1..Len(ns) : Len(Split(ns[j].item.number, ".")) = ns[j].depth

\* A returned tree has three nodes, on more than one level.
C6_Witness ==
    \E rec \in Returned :
        LET ns == NodesOf(rec.hierarchy)
        IN  /\ Len(ns) = 3
            /\ Len(rec.hierarchy) = 2

\* The position of the node named name in a list of nodes.
PositionOf(items, name) == CHOOSE k \in 1..Len(items) : items[k].name = name

\* C7: two visible entries of one directory with the same kind and the same
\* lowercased name appear in the output in the order in which the listing
\* enumerated them.
C7_StableOrder ==
    \A rec \in Returned :
        \A l \in ListsOf(rec.hierarchy) :
            LET listing == ScanDir(rec.root, l.names)
                es == listing.entries
            IN  listing.ok =>
                    \A p, q \in 1..Len(es) :
                        ( /\ p < q
                          /\ ~Hidden(es[p].name)
                          /\ ~Hidden(es[q].name)
                          /\ es[p].is_dir = es[q].is_dir
                          /\ Lower(es[p].name) = Lower(es[q].name) )
                            => PositionOf(l.items, es[p].name)
                                   < PositionOf(l.items, es[q].name)

\* A directory below the root enumerated "a" before "A", two files; the
\* returned children list has them in that order.
C7_Witness ==
    \E rec \in Returned :
        \E l \in ListsOf(rec.hierarchy) :
            /\ l.names # << >>
            /\ Len(l.items) = 2
            /\ l.items[1].name = << "a" >>
            /\ l.items[2].name = << "A" >>
            /\ l.items[1].type = S_file
            /\ l.items[2].type = S_file

\* C8: two scans of the same unchanged tree return the same hierarchy and
\* the same item_count, by the same indexer or by different ones, and each
\* indexer's own item_count is that of the scan it made last.
C8_Rescan ==
    /\ \A a, b \in Returned :
           a.root = b.root => a.hierarchy = b.hierarchy /\ a.item_count = b.item_count
    /\ \A k \in 1..Len(returned) :
           (\A m \in (k + 1)..Len(returned) : returned[m].indexer # returned[k].indexer)
               => /\ indexer[returned[k].indexer].item_count = returned[k].item_count
                  /\ indexer[returned[k].indexer].hierarchy = returned[k].hierarchy

\* One indexer has scanned a tree of nested entries twice.
C8_Witness ==
    /\ Len(returned) = 2
    /\ returned[1].indexer = returned[2].indexer
    /\ returned[1].root = returned[2].root
    /\ returned[2].item_count = 3
    /\ Len(returned[2].hierarchy) = 1

\* C9: after a scan of a directory with no visible entry the tree is empty,
\* and generate_all then produces the three outputs.
C9_EmptyDirectoryOutputs ==
    \A rec \in Returned :
        (Listable(rec.root) /\ VisibleEntries(rec.root.entries) = << >>)
            => /\ rec.hierarchy = << >>
               /\ (last.op = "generate_all" /\ last.by = rec.indexer)
                      => /\ last.value = << S_index_txt, S_index_json, S_index_xml >>
                         /\ {S_index_txt, S_index_json, S_index_xml} \subseteq DOMAIN files

\* C10: when the root path does not exist or is no directory, no scan of it
\* returns a result, no serializer is called and no file is written.
C10_BadRootFails ==
    /\ \A rec \in Returned : rec.root.kind = "dir"
    /\ fs.kind # "dir" => (calls.serializers = 0 /\ files = NoFiles)

\* The entry a path of names leads to below a listing.
RECURSIVE EntryAt(_, _)
EntryAt(es, path) ==
    LET e == es[CHOOSE k \in 1..Len(es) : es[k].name = path[1]]
    IN  IF Len(path) = 1 THEN e ELSE EntryAt(e.entries, Tail(path))

\* A scan of the listing comes to the directory at path: no name on the
\* path is hidden and every directory above it can be listed.
RECURSIVE Visited(_, _)
Visited(es, path) ==
    LET e == es[CHOOSE k \in 1..Len(es) : es[k].name = path[1]]
    IN  /\ ~Hidden(e.name)
        /\ Len(path) > 1 => (e.readable /\ Visited(e.entries, Tail(path)))

\* The nodes (none or one) that the names of a path lead to in a hierarchy.
RECURSIVE NodesAt(_, _)
NodesAt(items, path) ==
    UNION {IF items[k].name # path[1] THEN {}
           ELSE IF Len(path) = 1 THEN {items[k]}
           ELSE NodesAt(items[k].children, Tail(path)) : k \in 1..Len(items)}

\* A hierarchy with the children of the node at path taken away.
RECURSIVE Prune(_, _)
Prune(items, path) ==
    [k \in 1..Len(items) |->
        IF items[k].name # path[1] THEN items[k]
        ELSE IF Len(path) = 1 THEN [items[k] EXCEPT !.children = << >>]
        ELSE [items[k] EXCEPT !.children = Prune(@, Tail(path))]]

\* C11: a scan that comes to a subdirectory it cannot list returns, with a
\* directory node of empty children for it; and against the scan of the
\* same tree with that subdirectory readable, its tree is the same but for
\* the children of that node: every number, path and position is kept.
C11_UnreadableSubdirectory ==
    \A b \in Returned :
        \A p \in DirPaths(b.root.entries) :
            (Listable(b.root) /\ ~EntryAt(b.root.entries, p).readable
                 /\ Visited(b.root.entries, p))
                => /\ \E n \in NodesAt(b.hierarchy, p) :
                          /\ n.type = S_directory
                          /\ n.children = << >>
                          /\ n.path = Join(p, << "/" >>)
                   /\ \A a \in Returned :
                          a.root = [b.root EXCEPT !.entries = ChmodAt(@, p)]
                              => b.hierarchy = Prune(a.hierarchy, p)

\* A directory with an entry, enumerated before a file, was scanned, made
\* unreadable and scanned again: its node lost its child and the file is
\* still node 2.
C11_Witness ==
    /\ Len(returned) = 2
    /\ Len(returned[1].hierarchy) = 2
    /\ returned[1].hierarchy[1].children # << >>
    /\ Len(returned[2].hierarchy) = 2
    /\ returned[2].hierarchy[1].children = << >>
    /\ returned[2].hierarchy[2].number = << "2" >>
    /\ ~returned[2].root.entries[1].readable
    /\ returned[2].root.entries[1].entries # << >>

\* The directories a scan of root comes to and cannot list: the root itself
\* (path << >>) or directories below it.
Unlisted(root) ==
    IF root.kind # "dir" THEN {}
    ELSE IF ~root.readable THEN {<< >>}
    ELSE {p \in DirPaths(root.entries) :
              ~EntryAt(root.entries, p).readable /\ Visited(root.entries, p)}

\* C12: what a scan gives its caller (the hierarchy and item_count; the
\* progress callback is passed nothing but the count) tells whether a
\* directory could not be listed: two scans with the same result met the
\* same unreadable directories.
C12_UnreadableSignalled ==
    \A a, b \in Returned :
        (a.hierarchy = b.hierarchy /\ a.item_count = b.item_count)
            => Unlisted(a.root) = Unlisted(b.root)

\* C13: a scan of a root directory that cannot be listed returns at once,
\* with an empty tree and item_count 0, whatever an earlier scan of the
\* root found; the indexer holds that empty result.
C13_UnreadableRoot ==
    /\ \A rec \in Returned :
           (rec.root.kind = "dir" /\ ~rec.root.readable)
               => rec.hierarchy = << >> /\ rec.item_count = 0
    /\ \A i \in Indexers :
           (last.op = "scan" /\ last.by = i
                /\ scan_root[i].kind = "dir" /\ ~scan_root[i].readable)
               => /\ pc[i] = "idle"
                  /\ returned # << >>
                  /\ returned[Len(returned)].indexer = i
                  /\ returned[Len(returned)].root = scan_root[i]
                  /\ indexer[i].hierarchy = << >>
                  /\ indexer[i].item_count = 0
                  /\ pipeline[i].item_count = 0

\* A root with three visible entries was scanned, made unreadable and
\* scanned again.
C13_Witness ==
    /\ Len(returned) = 2
    /\ returned[1].item_count = 3
    /\ returned[2].root.kind = "dir"
    /\ ~returned[2].root.readable
    /\ Len(returned[2].root.entries) = 3
    /\ last.op = "scan"

(***************************************************************************)
(* Reading JSON text back, as json.loads does.  A parsed value carries its *)
(* type, as a Python value does: a str, a list, or a dict from keys to     *)
(* values.                                                                 *)
(***************************************************************************)
JStr(s) == [t |-> "str", v |-> s]
JList(xs) == [t |-> "list", v |-> xs]
JDict(pairs) ==
    [t |-> "dict",
     v |-> [key \in {pairs[j][1] : j \in 1..Len(pairs)} |->
               LET j == CHOOSE m \in 1..Len(pairs) :
                            /\ pairs[m][1] = key
                            /\ \A n \in (m + 1)..Len(pairs) : pairs[n][1] # key
               IN  pairs[j][2]]]

JsonFail == [ok |-> FALSE, value |-> JStr(<< >>), next |-> 0]
JsonOk(value, next) == [ok |-> TRUE, value |-> value, next |-> next]

\* The first position at or after i that holds no white space.
RECURSIVE SkipWs(_, _)
SkipWs(s, i) ==
    IF i <= Len(s) /\ s[i] \in {" ", "\n", "\r", "\t"} THEN SkipWs(s, i + 1) ELSE i

\* The characters of a string literal from position i, just after its
\* opening quote, up to its closing quote; a raw control character or an
\* unknown escape is an error.
RECURSIVE ParseChars(_, _, _)
ParseChars(s, i, acc) ==
    IF i > Len(s) THEN JsonFail
    ELSE IF s[i] = "\"" THEN JsonOk(acc, i + 1)
    ELSE IF s[i] = "\\"
         THEN IF i + 1 > Len(s) THEN JsonFail
              ELSE CASE s[i + 1] \in {"\"", "\\", "/"} ->
                            ParseChars(s, i + 2, Append(acc, s[i + 1]))
                     [] s[i + 1] = "n" -> ParseChars(s, i + 2, Append(acc, "\n"))
                     [] s[i + 1] = "r" -> ParseChars(s, i + 2, Append(acc, "\r"))
                     [] s[i + 1] = "t" -> ParseChars(s, i + 2, Append(acc, "\t"))
                     [] OTHER -> JsonFail
    ELSE IF s[i] \in {"\n", "\r", "\t"} THEN JsonFail
    ELSE ParseChars(s, i + 1, Append(acc, s[i]))

\* A value from position i: a string, an array or an object (the output
\* of generate_json holds no number, true, false or null).
RECURSIVE ParseValue(_, _)
RECURSIVE ParseElements(_, _, _)
RECURSIVE ParseMembers(_, _, _)
ParseValue(s, i) ==
    LET j == SkipWs(s, i)
    IN  IF j > Len(s) THEN JsonFail
        ELSE CASE s[j] = "\"" ->
                      LET r == ParseChars(s, j + 1, << >>)
                      IN  IF r.ok THEN JsonOk(JStr(r.value), r.next) ELSE JsonFail
               [] s[j] = "[" ->
                      LET k == SkipWs(s, j + 1)
                      IN  IF k <= Len(s) /\ s[k] = "]"
                          THEN JsonOk(JList(<< >>), k + 1)
                          ELSE ParseElements(s, k, << >>)
               [] s[j] = "{" ->
                      LET k == SkipWs(s, j + 1)
                      IN  IF k <= Len(s) /\ s[k] = "}"
                          THEN JsonOk(JDict(<< >>), k + 1)
                          ELSE ParseMembers(s, k, << >>)
               [] OTHER -> JsonFail

\* The elements of an array from position i, after those in acc.
ParseElements(s, i, acc) ==
    LET r == ParseValue(s, i)
        k == SkipWs(s, r.next)
    IN  IF ~r.ok \/ k > Len(s) THEN JsonFail
        ELSE IF s[k] = "," THEN ParseElements(s, k + 1, Append(acc, r.value))
        ELSE IF s[k] = "]" THEN JsonOk(JList(Append(acc, r.value)), k + 1)
        ELSE JsonFail

\* The members of an object from position i, after those in acc.
ParseMembers(s, i, acc) ==
    LET j == SkipWs(s, i)
    IN  IF j > Len(s) \/ s[j] # "\"" THEN JsonFail
        ELSE LET key == ParseChars(s, j + 1, << >>)
                 c == SkipWs(s, key.next)
             IN  IF ~key.ok \/ c > Len(s) \/ s[c] # ":" THEN JsonFail
                 ELSE LET r == ParseValue(s, c + 1)
                          k == SkipWs(s, r.next)
                          members == Append(acc, << key.value, r.value >>)
                      IN  IF ~r.ok \/ k > Len(s) THEN JsonFail
                          ELSE IF s[k] = "," THEN ParseMembers(s, k + 1, members)
                          ELSE IF s[k] = "}" THEN JsonOk(JDict(members), k + 1)
                          ELSE JsonFail

\* json.loads(s): one value and nothing but white space after it.
json_loads(s) ==
    LET r == ParseValue(s, 1)
    IN  IF r.ok /\ SkipWs(s, r.next) > Len(s) THEN r ELSE JsonFail

\* The Python value of a list of items and of the data passed to the
\* output generators.
RECURSIVE PyItems(_)
PyItems(items) ==
    JList([k \in 1..Len(items) |->
               JDict(<< << S_number, JStr(items[k].number) >>,
                        << S_name, JStr(items[k].name) >>,
                        << S_type, JStr(items[k].type) >>,
                        << S_path, JStr(items[k].path) >>,
                        << S_children, PyItems(items[k].children) >> >>)])

PyData(data) ==
    JDict(<< << S_root_key, JStr(data.root) >>,
             << S_hierarchy, PyItems(data.hierarchy) >> >>)

\* C14: the text generate_json returns for a tree parses, and parses to
\* the data it was given: the same root label, and the same nodes with the
\* same number, name, type and path, nested and ordered in the same way.
C14_JsonRoundTrip ==
    last.op = "generate_json"
        => LET parsed == json_loads(last.value)
           IN  /\ parsed.ok
               /\ parsed.value = PyData(DataOf(indexer[last.by]))

\* generate_json was called on a tree of three nodes on two levels whose
\* names hold a quote, a backslash and a line break, with a root label
\* that holds a quote.
C14_Witness ==
    /\ last.op = "generate_json"
    /\ indexer[last.by].display_name = S_custom_name
    /\ Len(indexer[last.by].hierarchy) = 2
    /\ Len(NodesOf(indexer[last.by].hierarchy)) = 3
    /\ {n.item.name : n \in {NodesOf(indexer[last.by].hierarchy)[k] : k \in 1..3}}
           = SpecialNames

\* The line of the text output for a node: two spaces per level below the
\* root level, then '<number>. <kind-marker> <name>'.
NodeLine(n) ==
    Repeat(<< " ", " " >>, n.depth - 1) \o n.item.number \o << ".", " " >>
        \o (IF n.item.type = S_directory THEN << "[", "D", "]" >> ELSE << "[", "F", "]" >>)
        \o << " " >> \o n.item.name

\* The lines generate_txt starts with: the title with the root label, the
\* timestamp, the rule and an empty line.
HeaderLines(root) ==
    << S_txt_title \o root, S_txt_generated \o Timestamp, Repeat(<< "=" >>, 60), << >> >>

\* C15: after the header lines, the text generate_txt returns has exactly
\* one line per node, in pre-order, and the line of a node is its NodeLine.
C15_TxtLinePerNode ==
    last.op = "generate_txt"
        => LET lines == SplitLines(last.value)
               body == SubSeq(lines, Len(HeaderLines(<< >>)) + 1, Len(lines))
               nodes == NodesOf(indexer[last.by].hierarchy)
           IN  /\ Len(body) = Len(nodes)
               /\ \A k \in 1..Len(nodes) : body[k] = NodeLine(nodes[k])

\* C16 as stated: the header has exactly two lines, of which the first
\* names the root, and the line of the first node is the third line.
C16_TwoLineHeader ==
    (last.op = "generate_txt" /\ indexer[last.by].hierarchy # << >>)
        => LET lines == SplitLines(last.value)
           IN  /\ lines[1] = S_txt_title \o indexer[last.by].display_name
               /\ StartsWith(lines[3], << "1", ".", " ", "[" >>)

\* C16 amended: the text starts with the title with the root label, the
\* timestamp, a rule of 60 '=' and an empty line, each ended by a line
\* break: four header lines; the line of the first node starts the fifth
\* line, and no header line looks like the line of a node.
C16_FourLineHeader ==
    last.op = "generate_txt"
        => LET lines == SplitLines(last.value)
               ix == indexer[last.by]
           IN  /\ StartsWith(last.value, Join(HeaderLines(ix.display_name), << "\n" >>))
               /\ Len(lines) >= 4
               /\ SubSeq(lines, 1, 4) = HeaderLines(ix.display_name)
               /\ \A k \in 1..4 : ~StartsWith(lines[k], << "1", ".", " ", "[" >>)
               /\ ix.hierarchy # << >>
                      => /\ Len(lines) >= 5
                         /\ lines[5] = SplitLines(NodeLine(NodesOf(ix.hierarchy)[1]))[1]
                         /\ StartsWith(lines[5], << "1", ".", " ", "[" >>)

\* generate_txt was called on a tree with nodes on two levels and a root
\* label given by the caller.
C16_Witness ==
    /\ last.op = "generate_txt"
    /\ indexer[last.by].display_name = S_custom_name
    /\ Len(indexer[last.by].hierarchy) = 2
    /\ indexer[last.by].hierarchy[1].children # << >>

(***************************************************************************)
(* Reading XML text back into elements: a tag, the attributes in document  *)
(* order, the child elements, and the character data.                      *)
(***************************************************************************)
Element(tag, attrs, children, text) ==
    [tag |-> tag, attrs |-> attrs, children |-> children, text |-> text]

XmlFail == [ok |-> FALSE, value |-> Element(<< >>, << >>, << >>, << >>), next |-> 0]

\* The first position at or after i that holds one of stops, or Len(s) + 1.
RECURSIVE FindAny(_, _, _)
FindAny(s, i, stops) ==
    IF i > Len(s) \/ s[i] \in stops THEN i ELSE FindAny(s, i + 1, stops)

\* Character data with its entity references replaced.
RECURSIVE XmlUnescape(_)
XmlUnescape(s) ==
    IF s = << >> THEN << >>
    ELSE IF s[1] # "&" THEN << s[1] >> \o XmlUnescape(Tail(s))
    ELSE LET e == FindAny(s, 1, {";"})
             entity == SubSeq(s, 2, e - 1)
             rest == XmlUnescape(SubSeq(s, e + 1, Len(s)))
         IN  CASE entity = << "a", "m", "p" >> -> << "&" >> \o rest
               [] entity = << "l", "t" >> -> << "<" >> \o rest
               [] entity = << "g", "t" >> -> << ">" >> \o rest
               [] entity = << "q", "u", "o", "t" >> -> << "\"" >> \o rest
               [] OTHER -> << "&" >> \o XmlUnescape(Tail(s))

\* The attributes of a start tag from position i up to its end: '>', or
\* '/>' of an element without content.
RECURSIVE ParseAttrs(_, _, _)
ParseAttrs(s, i, acc) ==
    LET j == SkipWs(s, i)
    IN  IF j > Len(s) THEN [ok |-> FALSE, attrs |-> acc, closed |-> FALSE, next |-> 0]
        ELSE IF s[j] = ">" THEN [ok |-> TRUE, attrs |-> acc, closed |-> FALSE, next |-> j + 1]
        ELSE IF s[j] = "/"
             THEN [ok |-> j < Len(s) /\ s[j + 1] = ">", attrs |-> acc, closed |-> TRUE,
                   next |-> j + 2]
        ELSE LET e == FindAny(s, j, {"="})
                 q == FindAny(s, e + 2, {"\""})
             IN  IF q > Len(s) \/ s[e + 1] # "\""
                 THEN [ok |-> FALSE, attrs |-> acc, closed |-> FALSE, next |-> 0]
                 ELSE ParseAttrs(s, q + 1,
                                 Append(acc, << SubSeq(s, j, e - 1),
                                                XmlUnescape(SubSeq(s, e + 2, q - 1)) >>))

\* The element whose start tag begins at position i, and what is in it up
\* to its end tag.
RECURSIVE ParseElement(_, _)
RECURSIVE ParseContent(_, _, _, _, _, _)
ParseElement(s, i) ==
    IF i + 1 > Len(s) \/ s[i] # "<" \/ s[i + 1] \in {"/", "?", "!"} THEN XmlFail
    ELSE LET e == FindAny(s, i + 1, {" ", "\n", "/", ">"})
             tag == SubSeq(s, i + 1, e - 1)
             a == ParseAttrs(s, e, << >>)
         IN  IF ~a.ok THEN XmlFail
             ELSE IF a.closed
                  THEN [ok |-> TRUE, value |-> Element(tag, a.attrs, << >>, << >>),
                        next |-> a.next]
                  ELSE ParseContent(s, a.next, tag, a.attrs, << >>, << >>)

ParseContent(s, i, tag, attrs, children, text) ==
    LET t == FindAny(s, i, {"<"})
        data == text \o SubSeq(s, i, t - 1)
    IN  IF t >= Len(s) THEN XmlFail
        ELSE IF s[t + 1] = "/"
             THEN LET g == FindAny(s, t + 2, {">"})
                  IN  IF g <= Len(s) /\ SubSeq(s, t + 2, g - 1) = tag
                      THEN [ok |-> TRUE,
                            value |-> Element(tag, attrs, children, XmlUnescape(data)),
                            next |-> g + 1]
                      ELSE XmlFail
             ELSE LET child == ParseElement(s, t)
                  IN  IF ~child.ok THEN XmlFail
                      ELSE ParseContent(s, child.next, tag, attrs,
                                        Append(children, child.value), data)

\* The document element of an XML text: after the declaration, one element
\* and nothing but white space after it.
xml_parse(s) ==
    LET d == FindAny(s, 1, {">"})
        r == ParseElement(s, SkipWs(s, d + 1))
    IN  IF StartsWith(s, << "<", "?" >>) /\ r.ok /\ SkipWs(s, r.next) > Len(s)
        THEN r ELSE XmlFail

\* An element with the white space between its child elements left out.
RECURSIVE Structure(_)
Structure(el) ==
    Element(el.tag, el.attrs,
            [k \in 1..Len(el.children) |-> Structure(el.children[k])],
            IF el.children = << >> THEN el.text ELSE << >>)

\* The item elements that stand for a list of nodes: one per node, with
\* a name and a path element, and a children element around the item
\* elements of its children if and only if it has children.
RECURSIVE ItemElements(_)
ItemElements(items) ==
    [k \in 1..Len(items) |->
        Element(S_item,
                << << S_number, items[k].number >>, << S_type, items[k].type >> >>,
                << Element(S_name, << >>, << >>, items[k].name),
                   Element(S_path, << >>, << >>, items[k].path) >>
                    \o (IF items[k].children # << >>
                        THEN << Element(S_children, << >>,
                                        ItemElements(items[k].children), << >>) >>
                        ELSE << >>),
                << >>)]

\* The number of elements with a tag in and below an element.
RECURSIVE CountTag(_, _)
RECURSIVE CountTagIn(_, _)
CountTag(el, tag) == (IF el.tag = tag THEN 1 ELSE 0) + CountTagIn(el.children, tag)
CountTagIn(els, tag) ==
    IF els = << >> THEN 0 ELSE CountTag(els[1], tag) + CountTagIn(Tail(els), tag)

\* C17: the text generate_xml returns is a document whose element holds
\* exactly one item element per node, nested as the nodes are, and an item
\* element holds a children element if and only if its node has children.
C17_XmlItems ==
    last.op = "generate_xml"
        => LET parsed == xml_parse(last.value)
               ix == indexer[last.by]
               nodes == NodesOf(ix.hierarchy)
           IN  /\ parsed.ok
               /\ Structure(parsed.value).children = ItemElements(ix.hierarchy)
               /\ CountTag(parsed.value, S_item) = Len(nodes)
               /\ CountTag(parsed.value, S_children)
                      = Cardinality({k \in 1..Len(nodes) : nodes[k].item.children # << >>})

\* generate_xml was called on a tree with a directory that has a child,
\* a directory without children and a file.
C17_Witness ==
    /\ last.op = "generate_xml"
    /\ LET h == indexer[last.by].hierarchy
       IN  \E a, b \in 1..Len(h) :
               /\ h[a].type = S_directory
               /\ h[a].children # << >>
               /\ h[b].type = S_directory
               /\ h[b].children = << >>
               /\ h[a].children[1].type = S_file

\* The text a file of the indexer's default names holds when written from
\* the data of an indexer.
TextFor(name, ix) ==
    CASE name = S_index_txt -> generate_txt(DataOf(ix))
      [] name = S_index_json -> generate_json(DataOf(ix))
      [] name = S_index_xml -> generate_xml(DataOf(ix))

\* C18: a step in which no scan runs or returns (a call of generate_txt,
\* generate_json, generate_xml, generate_output or generate_all) leaves
\* the hierarchy, display name and item count of every indexer as they
\* were, so every file written holds the text of the tree as scanned.
C18_TreeReadOnly ==
    [][ (NoScanRunning /\ returned' = returned)
            => /\ indexer' = indexer
               /\ \A f \in DOMAIN files' : files'[f] = TextFor(f, indexer["lib1"]) ]_vars

\* After a scan of nested entries, generate_all wrote the three files and
\* generate_json was called after that; the indexer holds the scan's tree.
C18_Witness ==
    /\ Cardinality(DOMAIN files) = 3
    /\ last.op = "generate_json"
    /\ returned # << >>
    /\ indexer["lib1"].hierarchy = returned[1].hierarchy
    /\ Len(NodesOf(indexer["lib1"].hierarchy)) = 3
    /\ Len(indexer["lib1"].hierarchy) < 3

\* The progress calls of a scan of n items on a pipeline, run on its own.
RECURSIVE ProcessingCalls(_, _)
ProcessingCalls(p, n) ==
    IF n = 0 THEN << >> ELSE EmitProgress(p, ProcessingCalls(p, n - 1), n)

ProgressAlone(p, n) ==
    IF p.on_progress
    THEN Append(ProcessingCalls(p, n), [count |-> n, message |-> "Complete"])
    ELSE ProcessingCalls(p, n)

\* C19: however the iterations of two scans by two indexers interleave,
\* each scan returns the tree and the item_count that _scan_recursive gives
\* on its own for the root, each indexer holds its own result, and each
\* progress callback is called as in a scan on its own.
C19_InterleavedScans ==
    \A rec \in Returned :
        LET alone == scan_recursive(rec.root, << >>, << >>, << >>)
            i == rec.indexer
        IN  /\ rec.hierarchy = alone
            /\ rec.item_count = Len(NodesOf(alone))
            /\ pc[i] = "idle"
                   => /\ indexer[i].hierarchy = alone
                      /\ indexer[i].item_count = rec.item_count
                      /\ pipeline[i].item_count = rec.item_count
                      /\ progress[i] = ProgressAlone(pipeline[i], rec.item_count)

\* Both scans have returned, of three entries on two levels; the second
\* to begin began after the first had counted an item and was the first
\* to return, and one of the callbacks was called for every item.
C19_Witness ==
    /\ Len(returned) = 2
    /\ returned[1].indexer = last.by
    /\ returned[1].item_count = 3
    /\ Len(returned[1].hierarchy) = 2
    /\ \E i \in Libraries : Len(progress[i]) = 4


\* The index files the command line names, in the order they are written:
\* -u names the index file found, directory_index.txt when none is, and
\* comes before -a, which comes before -j, which comes before -x.
NamedByFlags(m) ==
    IF m.args.u.given
    THEN << IF m.existing # << >> THEN m.existing ELSE S_index_txt >>
    ELSE IF m.args.a THEN << S_index_txt, S_index_json, S_index_xml >>
    ELSE IF m.args.j THEN << S_index_json >>
    ELSE IF m.args.x THEN << S_index_xml >>
    ELSE << S_index_txt >>

\* The names of the entries the run has added to the root, in the order of
\* their creation.
CreatedByRun ==
    LET before == Len(scan_root["cli"].entries)
    IN  [k \in 1..(Len(fs.entries) - before) |-> fs.entries[before + k].name]

\* The run of the command line has ended on a root that is a directory
\* with entries, the index file -u names, if any, not being a directory.
RunOverNonEmpty ==
    /\ main.pc = "done"
    /\ fs.kind = "dir"
    /\ scan_root["cli"].entries # << >>
    /\ \A k \in 1..Len(scan_root["cli"].entries) :
           scan_root["cli"].entries[k].name = main.existing
               => ~scan_root["cli"].entries[k].is_dir

\* C20: a run of the command line over a non-empty directory writes
\* exactly the index files its first flag in the order -u, -a, -j, -x
\* names (directory_index.txt without a flag, all three in the order txt,
\* json, xml for -a), and it writes no file before its one scan has
\* returned.
C20_CliFormats ==
    /\ files # NoFiles => (main.pc = "done" /\ Len(returned) = 1)
    /\ RunOverNonEmpty
           => /\ Len(returned) = 1
              /\ returned[1].indexer = "cli"
              /\ DOMAIN files = NamesOf([k \in 1..Len(NamedByFlags(main)) |->
                                          [name |-> NamedByFlags(main)[k]]])
              /\ CreatedByRun =
                     SelectSeq(NamedByFlags(main),
                               LAMBDA n : n \notin NamesOf(scan_root["cli"].entries))
              /\ main.exit_code = 0

\* The tree of the root as the front-end's indexer scans it, and the text
\* of a format for it.
HttpTree == scan_recursive(fs, << >>, << >>, << >>)

HttpText(file_type) ==
    LET data == [root |-> RootName, hierarchy |-> HttpTree]
    IN  CASE file_type = "json" -> generate_json(data)
          [] file_type = "xml" -> generate_xml(data)
          [] file_type = "txt" -> generate_txt(data)

BrowsedPath ==
    IF last.value.request.given THEN last.value.request.path ELSE << >>

BrowsesDirectory ==
    /\ last.op \in {"GET /browse", "POST /browse"}
    /\ last.by = "pwa_mobile" => last.value.request.given
    /\ Stat(fs, BrowsedPath).kind = "dir"

\* The items of a response are the entries the core scan lists in the
\* directory at path, one level of them: the same names and kinds, each
\* once, with the path of each.
OneLevelOf(items, path) ==
    LET core == ListSorted(fs, path)
    IN  /\ Len(items) = Len(core)
        /\ {[name |-> items[k].name, is_dir |-> items[k].is_dir] : k \in 1..Len(items)}
               = {core[k] : k \in 1..Len(core)}
        /\ \A k \in 1..Len(items) : items[k].path = Append(path, items[k].name)

\* C22: a browse request for a directory lists one level of it with the
\* enumerator semantics of the core scan: no dot-prefixed entries, and for
\* a directory that cannot be listed an empty item list, not a failed
\* request.
C22_BrowseLikeScan ==
    BrowsesDirectory
        => /\ last.value.response.success
           /\ OneLevelOf(last.value.response.items, BrowsedPath)

\* C22 as amended: a directory that can be listed is listed one level
\* deep without its dot-prefixed entries; one that cannot be listed gives
\* success false with 'Permission denied', save that pwa_mobile gives an
\* empty item list when its os.access check passes and the listing itself
\* is refused.
C22_BrowseDenied ==
    BrowsesDirectory
        => LET node == Stat(fs, BrowsedPath)
               response == last.value.response
           IN  IF node.readable \/ (last.by = "pwa_mobile" /\ last.value.request.lenient)
               THEN /\ response.success
                    /\ OneLevelOf(response.items, BrowsedPath)
                    /\ \A k \in 1..Len(response.items) :
                           ~StartsWith(response.items[k].name, S_dot)
               ELSE response = [success |-> FALSE, error |-> "Permission denied"]

C22_Witness ==
    /\ BrowsesDirectory
    /\ last.by = "pwa_mobile"
    /\ BrowsedPath # << >>
    /\ ~Stat(fs, BrowsedPath).readable
    /\ ~last.value.request.lenient
    /\ last.value.response.error = "Permission denied"
    /\ \E k \in 1..Len(fs.entries) : StartsWith(fs.entries[k].name, S_dot)

\* The nodes the activations of a running scan have created: those in the
\* lists of items built so far, and the directory each activation but the
\* innermost is filling.
RECURSIVE CreatedIn(_)
CreatedIn(st) ==
    IF st = << >> THEN 0
    ELSE Len(NodesOf(Head(st).items)) + (IF Len(st) > 1 THEN 1 ELSE 0)
             + CreatedIn(Tail(st))

\* The scans of indexer i that have returned, in order.
ReturnedBy(i) == SelectSeq(returned, LAMBDA rec : rec.indexer = i)

\* C23: the counter counts every node once, directories and files alike,
\* directories that cannot be listed too, and starts from 0 in every scan:
\* during a scan it is the number of nodes created so far, and after any
\* sequence of scans it is the number of nodes of the tree returned last.
C23_CountIsNodes ==
    /\ \A rec \in Returned : rec.item_count = Len(NodesOf(rec.hierarchy))
    /\ \A i \in Indexers :
           IF pc[i] = "scanning"
           THEN pipeline[i].item_count = CreatedIn(stack[i])
           ELSE ReturnedBy(i) # << >>
                    => LET latest == ReturnedBy(i)[Len(ReturnedBy(i))]
                       IN  /\ pipeline[i].item_count = Len(NodesOf(latest.hierarchy))
                           /\ indexer[i].item_count = Len(NodesOf(latest.hierarchy))
                           /\ indexer[i].hierarchy = latest.hierarchy

\* A second scan has returned fewer nodes than the first, a directory
\* that could not be listed among them.
C23_Witness ==
    /\ Len(returned) = 2
    /\ returned[1].item_count = 3
    /\ returned[2].item_count = 2
    /\ pipeline["lib1"].item_count = 2
    /\ \E k \in 1..Len(fs.entries) :
           fs.entries[k].is_dir /\ ~fs.entries[k].readable /\ fs.entries[k].entries # << >>

\* A node without its children, and the nodes of a list of items in
\* pre-order.
Bare(item) ==
    [number |-> item.number, name |-> item.name, type |-> item.type, path |-> item.path]

RECURSIVE PreOrder(_)
PreOrder(items) ==
    Flatten([k \in 1..Len(items) |->
                << Bare(items[k]) >> \o PreOrder(items[k].children)])

\* The nodes a running scan has created, in the order of their creation
\* if the tree is built in pre-order: in each activation the finished
\* items, then the directory it is filling and what the activations below
\* have made.
RECURSIVE CreatedOrder(_)
CreatedOrder(st) ==
    IF st = << >> THEN << >>
    ELSE PreOrder(Head(st).items)
             \o (IF Len(st) > 1
                 THEN << Bare(Head(st).item) >> \o CreatedOrder(Tail(st))
                 ELSE << >>)

\* C24: the scan is depth-first and sequential: when the counter is at n,
\* the nodes created are the first n nodes of the final tree in pre-order,
\* so a node is created when everything below its earlier siblings is, and
\* a directory has its number before the activation for its children
\* begins, which numbers them from it.
C24_PreOrder ==
    /\ \A i \in Indexers :
           pc[i] = "scanning"
               => LET final == PreOrder(scan_recursive(scan_root[i], << >>, << >>, << >>))
                      made == CreatedOrder(stack[i])
                  IN  /\ Len(made) = pipeline[i].item_count
                      /\ Len(made) <= Len(final)
                      /\ made = SubSeq(final, 1, Len(made))
                      /\ \A k \in 2..Len(stack[i]) :
                             /\ stack[i][k].parent_number = stack[i][k - 1].item.number
                             /\ stack[i][k - 1].item.children = << >>
    /\ \A rec \in Returned :
           rec.hierarchy = scan_recursive(rec.root, << >>, << >>, << >>)

\* The scan is inside the first of two root-level entries, a directory
\* that has its number while its child and its sibling are not created
\* yet.
C24_Witness ==
    /\ pc["lib1"] = "scanning"
    /\ Len(stack["lib1"]) = 2
    /\ pipeline["lib1"].item_count = 1
    /\ stack["lib1"][1].item.number = << "1" >>
    /\ stack["lib1"][2].idx = 1
    /\ stack["lib1"][2].items = << >>
    /\ Len(stack["lib1"][1].sorted_entries) = 2
    /\ stack["lib1"][1].items = << >>

\* C25: the progress callback is optional and does not change the result:
\* a scan by a pipeline without a callback makes no progress call and
\* returns the tree and the count of the scan of the same tree by a
\* pipeline with a callback, whatever the cadence of the calls.
C25_CallbackOptional ==
    /\ ~pipeline["lib2"].on_progress => progress["lib2"] = << >>
    /\ \A with, without \in Returned :
           (with.indexer = "lib1" /\ without.indexer = "lib2")
               => /\ pipeline["lib1"].on_progress
                  /\ ~pipeline["lib2"].on_progress
                  /\ progress["lib1"] # << >>
                  /\ with.hierarchy = without.hierarchy
                  /\ with.item_count = without.item_count
                  /\ without.item_count = Len(NodesOf(without.hierarchy))

\* Both scans have returned a tree of three nodes; the callback was called
\* for every node and at the end.
C25_Witness ==
    /\ Len(returned) = 2
    /\ returned[1].indexer = "lib2"
    /\ returned[1].item_count = 3
    /\ Len(progress["lib1"]) = 4
    /\ progress["lib2"] = << >>

\* The progress calls of a scan that has counted n nodes with cadence
\* every: one for each positive multiple of every up to n, in increasing
\* order.
ProcessingUpTo(n, every) ==
    [k \in 1..(n \div every) |-> [count |-> k * every, message |-> "Processing"]]

\* The progress calls of the scans of indexer i that have returned.
RECURSIVE CallsOfScans(_, _)
CallsOfScans(recs, every) ==
    IF recs = << >> THEN << >>
    ELSE ProcessingUpTo(Head(recs).item_count, every)
             \o << [count |-> Head(recs).item_count, message |-> "Complete"] >>
             \o CallsOfScans(Tail(recs), every)

\* C26: with a callback set, a scan of N nodes calls it once for each
\* positive multiple of yield_interval up to N, in increasing order, and
\* once more at the end with N; during the scan the calls made are those
\* for the multiples up to the count, and none is made once the scan has
\* returned.
C26_ProgressCalls ==
    \A i \in Libraries :
        pipeline[i].on_progress
            => LET every == pipeline[i].yield_interval
                   over == CallsOfScans(ReturnedBy(i), every)
               IN  progress[i] =
                       IF pc[i] = "scanning"
                       THEN over \o ProcessingUpTo(pipeline[i].item_count, every)
                       ELSE over

\* Two scans of three nodes with a call for every second node: the calls
\* are 2, 3, 2, 3.
C26_Witness ==
    /\ Len(returned) = 2
    /\ pc["lib1"] = "idle"
    /\ pipeline["lib1"].yield_interval = 2
    /\ progress["lib1"] = << [count |-> 2, message |-> "Processing"],
                            [count |-> 3, message |-> "Complete"],
                            [count |-> 2, message |-> "Processing"],
                            [count |-> 3, message |-> "Complete"] >>

\* The index file update mode is to rewrite in the root as the run found
\* it: the file -u names if the root holds it, without a name the first of
\* directory_index.txt, directory_index.json and directory_index.xml the
\* root holds; << >> when there is none.
UpdateTarget ==
    LET held == NamesOf(scan_root["cli"].entries)
        named == main.args.u.file
        defaults == << S_index_txt, S_index_json, S_index_xml >>
        found == {k \in 1..Len(defaults) : defaults[k] \in held}
    IN  IF named # << >>
        THEN IF named \in held THEN named ELSE << >>
        ELSE IF found = {} THEN << >>
        ELSE defaults[CHOOSE k \in found : \A m \in found : k <= m]

\* The text of the tree the run has scanned, in the format the extension
\* of name stands for: txt, json or xml, in either case, and txt for
\* anything else.
TextByExtension(name, ix) ==
    LET data == [root |-> ix.display_name, hierarchy |-> returned[1].hierarchy]
        Ends(suffix) ==
            /\ Len(name) > Len(suffix)
            /\ Lower(SubSeq(name, Len(name) - Len(suffix) + 1, Len(name))) = suffix
    IN  IF Ends(<< ".", "j", "s", "o", "n" >>) THEN generate_json(data)
        ELSE IF Ends(<< ".", "x", "m", "l" >>) THEN generate_xml(data)
        ELSE generate_txt(data)

\* A run in update mode has ended on a root that is a directory that can
\* be listed, the file to rewrite, if there is one, being no directory.
UpdateRunOver ==
    /\ main.pc = "done"
    /\ main.args.u.given
    /\ Listable(scan_root["cli"])
    /\ \A k \in 1..Len(scan_root["cli"].entries) :
           scan_root["cli"].entries[k].name = UpdateTarget
               => ~scan_root["cli"].entries[k].is_dir

\* C27: update mode rewrites the index file it targets under its name and
\* in the format of its extension, and creates no other file; when there
\* is no file to target it creates directory_index.txt.
C27_UpdateMode ==
    UpdateRunOver
        => IF UpdateTarget # << >>
           THEN /\ DOMAIN files = {UpdateTarget}
                /\ files[UpdateTarget] = TextByExtension(UpdateTarget, indexer["cli"])
                /\ NamesOf(fs.entries) = NamesOf(scan_root["cli"].entries)
           ELSE /\ DOMAIN files = {S_index_txt}
                /\ files[S_index_txt] = TextByExtension(S_index_txt, indexer["cli"])
                /\ NamesOf(fs.entries)
                       = NamesOf(scan_root["cli"].entries) \cup {S_index_txt}

(***************************************************************************)
(* Scans of trees that hold symbolic links to directories.                 *)
(***************************************************************************)
\* Roots with one link each, its target a path without links: a link to
\* the directory next to it; a link to the root beside a file; a link to
\* the root in a subdirectory; a link in a directory to that directory; a
\* hidden link to the root; a link to a directory that cannot be listed;
\* a link to a path inside such a directory, beside a file. The second,
\* third and fourth make a cycle a scan comes to.
LinkedRootStates ==
    {[kind |-> "dir", readable |-> TRUE, entries |-> es] :
         es \in {<< DirEntry(<< "a" >>, << FileEntry(<< "B", ".", "t" >>) >>),
                    LinkEntry(<< "A" >>, << << "a" >> >>) >>,
                 << LinkEntry(<< "a" >>, << >>), FileEntry(<< "B", ".", "t" >>) >>,
                 << DirEntry(<< "a" >>, << FileEntry(<< "B", ".", "t" >>),
                                           LinkEntry(<< "A" >>, << >>) >>) >>,
                 << DirEntry(<< "a" >>, << LinkEntry(<< "A" >>, << << "a" >> >>) >>) >>,
                 << LinkEntry(<< ".", "h" >>, << >>), FileEntry(<< "a" >>) >>,
                 << LockedDirEntry(<< "a" >>), LinkEntry(<< "A" >>, << << "a" >> >>) >>,
                 << FileEntry(<< "B", ".", "t" >>), LockedDirEntry(<< "a" >>),
                    LinkEntry(<< "A" >>, << << "a" >>, << "B", ".", "t" >> >>) >>}}

\* One call of scan_and_build, on a tree with or without links.
NextLinks ==
    \/ returned = << >> /\ NoScanRunning /\ ScanAndBuild("lib1")
    \/ ScanStep("lib1")

InitLinks == InitOf(RootStates \cup LinkedRootStates, {RootName})

\* Nothing but the scan runs, so an iteration that can be taken is taken:
\* weak fairness of ScanStep, WF_vars(ScanStep("lib1")), written out with
\* the condition under which ScanStep can be taken, pc = "scanning".
SpecLinks ==
    /\ InitLinks
    /\ [][NextLinks]_vars
    /\ \/ []<>(pc["lib1"] # "scanning")
       \/ []<><<ScanStep("lib1")>>_vars

\* The directory a path of names without links leads to below a listing:
\* whether it can be listed, and what it holds; a path through a
\* directory that cannot be read leads to nothing that can be listed.
RECURSIVE TargetOf(_, _, _)
TargetOf(readable, es, target) ==
    IF ~readable THEN [readable |-> FALSE, entries |-> << >>]
    ELSE IF target = << >> THEN [readable |-> TRUE, entries |-> es]
    ELSE LET e == es[CHOOSE k \in 1..Len(es) : es[k].name = target[1]]
         IN  TargetOf(e.readable, e.entries, Tail(target))

\* A listing with every link a scan can come to replaced by a directory
\* that holds what its target holds: the tree of paths below the root. It
\* is finite when no cycle can be reached.
RECURSIVE Unfold(_, _)
Unfold(r, es) ==
    [k \in 1..Len(es) |->
        IF Hidden(es[k].name)
        THEN es[k]
        ELSE IF IsLink(es[k])
             THEN LET t == TargetOf(r.readable, r.entries, es[k].target)
                  IN  [name |-> es[k].name, is_dir |-> TRUE, readable |-> t.readable,
                       entries |-> IF t.readable THEN Unfold(r, t.entries) ELSE << >>]
             ELSE IF es[k].is_dir /\ es[k].readable
                  THEN [es[k] EXCEPT !.entries = Unfold(r, @)]
                  ELSE es[k]]

\* The links a scan can come to: the directory each is in and its target.
RECURSIVE LinkSites(_, _)
LinkSites(es, at) ==
    UNION {IF Hidden(es[k].name) THEN {}
           ELSE IF IsLink(es[k]) THEN {[at |-> at, target |-> es[k].target]}
           ELSE IF es[k].is_dir /\ es[k].readable
                THEN LinkSites(es[k].entries, Append(at, es[k].name))
                ELSE {} : k \in 1..Len(es)}

\* A scan of the root can come to a link whose target is the directory
\* the link is in or one above it (the roots hold one link at most).
Cyclic(r) ==
    /\ Listable(r)
    /\ \E l \in LinkSites(r.entries, << >>) : StartsWith(l.at, l.target)

\* The paths of the entries of a tree without links that are not hidden
\* and lie under readable directories that are not hidden.
RECURSIVE ReachablePaths(_)
ReachablePaths(es) ==
    UNION {IF Hidden(es[k].name) THEN {}
           ELSE {<< es[k].name >>}
                    \cup (IF es[k].is_dir /\ es[k].readable
                          THEN {<< es[k].name >> \o p : p \in ReachablePaths(es[k].entries)}
                          ELSE {}) : k \in 1..Len(es)}

NoRepeats(s) == \A j, k \in 1..Len(s) : s[j] = s[k] => j = k

ElementsOf(s) == {s[k] : k \in 1..Len(s)}

\* The names leading to each node of a hierarchy, in pre-order.
PathsOf(hierarchy) == [k \in 1..Len(NodesOf(hierarchy)) |-> NodesOf(hierarchy)[k].names]

\* The directory a path leads to, as the path without links that names it.
RECURSIVE Canon(_, _, _)
Canon(r, at, rest) ==
    IF rest = << >> THEN at
    ELSE LET e == EntryAt(r.entries, Append(at, rest[1]))
         IN  IF IsLink(e)
             THEN Canon(r, e.target, Tail(rest))
             ELSE Canon(r, Append(at, rest[1]), Tail(rest))

\* How many of the paths lead to directory d.
TimesListed(r, paths, d) ==
    Cardinality({k \in 1..Len(paths) : Canon(r, << >>, paths[k]) = d})

\* The listing of the path ended at a link the platform refused to follow.
Refused(r, path) ==
    /\ ScanDir(r, path).ok
    /\ \E k \in 1..Len(ScanDir(r, path).entries) :
           LET e == ScanDir(r, path).entries[k]
           IN  /\ ~Hidden(e.name)
               /\ IsLink(e)
               /\ ResolvePath(r, r, Append(path, e.name), 0) = TooManyLinks

\* The scan of lib1 has returned and nothing has run since.
Scanned == returned # << >> /\ pc["lib1"] = "idle"

\* No path is passed to os.scandir twice in a scan.
ListsOnce == \A i \in Indexers : NoRepeats(listed[i])

\* A scan of a tree without a cycle has listed the root and every
\* directory that is not hidden and lies under readable directories that
\* are not hidden, and its tree has one node for each such entry.
AcyclicScan ==
    (Scanned /\ ~Cyclic(returned[1].root))
        => LET rec == returned[1]
               plain == Unfold(rec.root, rec.root.entries)
               paths == PathsOf(rec.hierarchy)
           IN  /\ NoRepeats(paths)
               /\ ElementsOf(paths) = ReachablePaths(plain)
               /\ ElementsOf(listed["lib1"])
                      = {<< >>} \cup {p \in ReachablePaths(plain) :
                                          EntryAt(plain, p).is_dir}

\* A scan of a tree with a cycle has returned only because the platform
\* refused a path: up to there it has listed the directory the link leads
\* to through every link the platform follows, once more each time.
CyclicScan ==
    (Scanned /\ Cyclic(returned[1].root))
        => LET r == returned[1].root
           IN  /\ \E p \in ElementsOf(listed["lib1"]) : Refused(r, p)
               /\ \E l \in LinkSites(r.entries, << >>) :
                      TimesListed(r, listed["lib1"], l.target) = MaxFollowed + 1

\* C28: scan_and_build of a tree without a link cycle ends, passes every
\* directory it can reach to os.scandir once and returns one node for
\* every entry that is not hidden and lies under readable directories that
\* are not hidden; nothing in the scan remembers the directories it has
\* listed, so in a cycle it lists the same directory again and again, and
\* it returns only because the platform refuses to follow more links.
C28_Termination ==
    /\ [](ListsOnce /\ AcyclicScan /\ CyclicScan)
    /\ (pc["lib1"] = "scanning" /\ ~Cyclic(scan_root["lib1"])) ~> (pc["lib1"] = "idle")

(***************************************************************************)
(* A caller scans, writes one index with generate_output and scans again.  *)
(***************************************************************************)
\* Names that sort before and after those of the index files, a hidden
\* name, and the name of the text index itself.
ReindexNames == { << "a" >>, << "z" >>, << ".", "h" >>, S_index_txt }

ReindexRootStates ==
    {[kind |-> "dir", readable |-> TRUE, entries |-> es] :
         es \in ListingsUpTo(ReindexNames, TRUE, MaxNodes)}

\* The formats generate_output knows.
OutputFormats == {"txt", "json", "xml"}

\* scan(), then generate_output of one format, then scan() again; nothing
\* else touches the directory.
NextReindex ==
    \/ /\ NoScanRunning
       /\ last.op = (IF returned = << >> THEN "none" ELSE "generate_output")
       /\ Scan("lib1")
    \/ ScanStep("lib1")
    \/ \E t \in OutputFormats :
           /\ NoScanRunning
           /\ Len(returned) = 1
           /\ last.op = "scan"
           /\ GenerateOutput("lib1", t)

InitReindex == InitOf(ReindexRootStates, {RootName})

SpecReindex == InitReindex /\ [][NextReindex]_vars

\* The scan, the call of generate_output and the second scan are over.
Reindexed == Len(returned) = 2 /\ pc["lib1"] = "idle"

\* The second list is the first with a file node of that name put in at
\* rank pos: the nodes before it are the same, those after it are the same
\* but for their number, which is one more.
ExtraNodeAt(first, second, name, pos) ==
    /\ Len(second) = Len(first) + 1
    /\ second[pos] = [number |-> Str(pos), name |-> name, type |-> S_file,
                      path |-> name, children |-> << >>]
    /\ \A k \in 1..Len(first) :
           IF k < pos
           THEN second[k] = first[k]
           ELSE /\ first[k].type = S_file
                /\ second[k + 1] = [first[k] EXCEPT !.number = Str(k + 1)]

\* C29: generate_output writes its file in the indexed root itself, under a
\* name that is not hidden, so when a directory is scanned, an index is
\* written with generate_output and the directory, otherwise unchanged, is
\* scanned again, the second tree has the index file as one more file
\* node at the root level, and the root-level files that sort after it
\* have a rank one higher than in the first tree.
C29_IndexIndexed ==
    Reindexed
        => \E name \in DOMAIN files :
               /\ ~Hidden(name)
               /\ name \in NamesOf(fs.entries)
               /\ \E pos \in 1..Len(returned[2].hierarchy) :
                      ExtraNodeAt(returned[1].hierarchy, returned[2].hierarchy, name, pos)

\* The name of the index of a format, and whether the output directory of
\* a session holds it.
IndexNamed(file_type) ==
    CASE file_type = "txt" -> S_index_txt
      [] file_type = "json" -> S_index_json
      [] file_type = "xml" -> S_index_xml

SessionHolds(session_id, file_type) ==
    LET output_dir == sessions[session_id].output_dir
    IN  /\ output_dir.temp_dir \in DOMAIN temp_dirs
        /\ << output_dir.name, IndexNamed(file_type) >>
               \in DOMAIN temp_dirs[output_dir.temp_dir]

\* What the claim has GET /download answer, in the state the request meets.
DownloadAnswers(request, response) ==
    IF request.session \notin DOMAIN sessions
    THEN response.status = 404 /\ response.body = "Session not found"
    ELSE IF request.type \notin {"json", "xml", "txt"}
    THEN response.status = 400
    ELSE IF ~SessionHolds(request.session, request.type)
    THEN response.status = 404
    ELSE /\ response.status = 200
         /\ response.body
                = temp_dirs[sessions[request.session].output_dir.temp_dir]
                           [<< sessions[request.session].output_dir.name,
                               IndexNamed(request.type) >>]

\* C30: GET /download leaves sessions as it is and checks in a fixed
\* order: an unknown session id gives 404 'Session not found' whatever the
\* type, a known session with a type other than json, xml and txt gives
\* 400, a known session and a valid type whose file is not there give 404,
\* and only then is the file sent. No step removes or changes a session,
\* so a session id accepted once is accepted by every later request.
C30_DownloadChecks ==
    [][ /\ \A s \in DOMAIN sessions : s \in DOMAIN sessions' /\ sessions'[s] = sessions[s]
        /\ last'.op = "GET /download"
               => /\ sessions' = sessions
                  /\ DownloadAnswers(last'.value.request, last'.value.response)
        /\ (/\ last.op = "GET /download"
            /\ last'.op = "GET /download"
            /\ last.value.response.status # 404
            /\ last'.value.request.session = last.value.request.session)
               => ~(/\ last'.value.response.status = 404
                    /\ last'.value.response.body = "Session not found") ]_vars

\* A client asked a session that is known, one of two, for a type that is
\* none of the three, and got 400.
C30_Witness ==
    /\ last.op = "GET /download"
    /\ Cardinality(DOMAIN sessions) = 2
    /\ last.value.request.session \in DOMAIN sessions
    /\ last.value.request.type = "csv"
    /\ last.value.response.status = 400

=============================================================================
